---- MODULE Spec2Model ----
(***************************************************************************)
(* Model of the bookstore backend: the per-user Wishlist / Purchase /      *)
(* Library / ReadingProgress workflows running as concurrent request       *)
(* handlers over one database, and the token checks of the auth service.   *)
(*                                                                         *)
(* A request handler is a sequence of database statements.  Each statement *)
(* (a SELECT, or the flush+COMMIT of db.commit()) is one atomic step; the  *)
(* steps of different requests interleave freely.                          *)
(***************************************************************************)
EXTENDS Integers, FiniteSets, Sequences, TLC

\* ---------------------------------------------------------------- bounds
NumProcs == 2
MaxReqs == 2
\* Token pairs minted, and minutes the clock runs.
MaxPairs == 2
MaxTime == 3
\* Rows of the users table that change under the handlers.
MaxUserChanges == 1
\* Accounts created by Google sign-in.
MaxNewUsers == 1
\* Largest page number and largest total of the pagination calls.
MaxPage == 4
MaxTotal == 45
\* Longest category name given to _slugify, in characters.
MaxLen == 3
\* Requests to the category endpoints.
MaxCatReqs == 3
\* Google sign-ins handled step by step by the workers.
MaxSignIns == 2

\* ------------------------------------------------------------ input sets
Procs == 1..NumProcs
\* The principals of the resource requests (get_current_user admits active
\* users only).
Users == {"u1", "u2"}
\* "b1" is in the catalog, "b2" is an id no book has.
BookIds == {"b1", "b2"}
None == "None"
Unset == "Unset"
\* LibraryAddRequest.source: an empty string (stored as "manual", like the
\* default of the field) and a custom tag.
SourceInputs == {"", "gift"}

\* The accounts: "u1" and "u2" are active ("u2" an admin), "u3" is deactivated.
Email(id) == id
Emails == {Email("u1"), Email("u2"), Email("u3"), "nobody"}
\* Passwords and hashes.  A password is a sequence of characters (all of
\* them one byte long).  bcrypt reads the first 72 bytes of its input.
BCRYPT_MAX_BYTES == 72
Truncate(secret) ==
    IF Len(secret) <= BCRYPT_MAX_BYTES THEN secret ELSE SubSeq(secret, 1, BCRYPT_MAX_BYTES)

\* The salts bcrypt draws.
Salts == {"salt1", "salt2"}

PwdContextHash_WholeSecret(secret, salt) ==
    [scheme |-> "bcrypt", salt |-> salt, digest |-> secret]
\* _pwd_context.hash(secret) with the salt it drew: the hash string names
\* the scheme, the salt and the digest; the digest is determined by the salt
\* and the bytes bcrypt read, and differs when they differ.
PwdContextHash(secret, salt) ==
    [scheme |-> "bcrypt", salt |-> salt, digest |-> Truncate(secret)]

\* _pwd_context.verify(secret, hash): raises for a string that is not a hash
\* of the context's scheme, else recomputes the digest with the hash's salt.
PwdContextVerify(secret, hash) ==
    IF hash.scheme # "bcrypt" THEN [raised |-> TRUE, value |-> FALSE]
    ELSE [raised |-> FALSE, value |-> PwdContextHash(secret, hash.salt) = hash]

\* verify_password(plain_password, hashed_password).
VerifyPassword(plain_password, hashed_password) ==
    LET r == PwdContextVerify(plain_password, hashed_password) IN
    IF r.raised THEN FALSE ELSE r.value

\* get_password_hash(password): the bcrypt hash of the password; the rows of
\* the accounts are written with the first salt.
GetPasswordHash(password) == PwdContextHash(password, "salt1")
\* The password account id was set up with.
InitialPassword(id) == <<id, "-", "p", "w">>
UserRow(id, is_active, is_superuser) ==
    [id |-> id, email |-> Email(id), hashed_password |-> GetPasswordHash(InitialPassword(id)),
     full_name |-> None, avatar_url |-> None,
     is_active |-> is_active, is_superuser |-> is_superuser]

InitialUsers ==
    {UserRow("u1", TRUE, FALSE), UserRow("u2", TRUE, TRUE), UserRow("u3", FALSE, FALSE)}

\* HTTP status codes the handlers answer with.
HTTP_200_OK == 200
HTTP_201_CREATED == 201
HTTP_204_NO_CONTENT == 204
HTTP_404_NOT_FOUND == 404
HTTP_409_CONFLICT == 409
\* What the framework answers when a handler lets an exception escape.
HTTP_500_INTERNAL == 500

VARIABLES
    books,             \* ids of the rows of table books
    wishlists,         \* rows of table wishlists
    purchases,         \* rows of table purchases
    libraries,         \* rows of table libraries
    reading_progress,  \* rows of table reading_progress
    nextId,            \* stands for uuid4(): the next unused primary key
    started,           \* number of requests received so far
    req,               \* req[p]: the request handler p is running
    last,              \* the response sent most recently
    users,             \* rows of table users
    issued,            \* the tokens minted so far, each with the function that minted it
    now,               \* the clock, in minutes
    auth,              \* the outcome of the token check made most recently
    redeemed,          \* the refresh tokens /auth/refresh has accepted, with the time of each use
    call,              \* a call of a utility function: its arguments and, once made, its result
    categories,        \* rows of table categories
    cat_req,           \* per worker: the category request it is handling
    cat_last,          \* the last response of a category endpoint
    cat_started,       \* category requests received
    cat_nextId,        \* the next primary key of table categories
    google_req,        \* per worker: the Google sign-in it is handling
    google_started     \* Google sign-ins received by the workers

tables == <<books, wishlists, purchases, libraries, reading_progress>>
resourceVars == <<books, wishlists, purchases, libraries, reading_progress, nextId, started, req, last>>
authVars == <<users, issued, now, auth, redeemed>>
utilVars == <<call>>
catVars == <<categories, cat_req, cat_last, cat_started, cat_nextId>>
signinVars == <<google_req, google_started>>
vars == <<resourceVars, authVars, utilVars, catVars, signinVars>>

\* What db.get / db.scalar return when no row matches (Python None).
NoRow == [id |-> 0]

\* ------------------------------------------------------------- requests
NoPayload == [progress_percent |-> Unset, current_chapter |-> Unset,
              current_location |-> Unset, is_completed |-> Unset]

IdleReq == [op |-> "none", pc |-> "idle", user |-> None, book |-> None,
            entry |-> 0, source |-> None, payload |-> NoPayload, payload_user |-> None,
            found |-> NoRow, created |-> FALSE, status |-> 0, exc |-> None]

NewReq(op, pc, u, b) == [IdleReq EXCEPT !.op = op, !.pc = pc, !.user = u, !.book = b]

\* A response: the request it answers, its status code, and the exception
\* that escaped the handler, if one did.
Response(r, code, e) == [op |-> r.op, user |-> r.user, book |-> r.book, entry |-> r.entry,
                         created |-> r.created, status |-> code, exc |-> e]

NoResponse == Response(IdleReq, 0, None)

\* Handler p goes on with its next statement.
Continue(p, r) == req' = [req EXCEPT ![p] = r] /\ UNCHANGED last

\* Handler p returns, or raises HTTPException(status_code=code).
Respond(p, r, code) == req' = [req EXCEPT ![p] = IdleReq] /\ last' = Response(r, code, None)

\* An exception no handler catches: the framework answers 500.
Raise(p, r, e) ==
    req' = [req EXCEPT ![p] = IdleReq] /\ last' = Response(r, HTTP_500_INTERNAL, e)

CanStart(p) == req[p].pc = "idle" /\ started < MaxReqs

\* ------------------------------------------------------------- database
\* The rows of a table for one (user, book) pair.
RowsFor(table, u, b) == {r \in table : r.user_id = u /\ r.book_id = b}

\* db.get(Model, id): the row with that primary key, or None.
GetById(table, id) == IF \E r \in table : r.id = id
                      THEN CHOOSE r \in table : r.id = id
                      ELSE NoRow

UniqueViolation_Off(table, u, b) == FALSE
\* UniqueConstraint("user_id", "book_id"): an INSERT of a second row for the
\* pair is refused by the database (IntegrityError at flush).
UniqueViolation(table, u, b) == RowsFor(table, u, b) # {}

Exists_Never(table, u, b) == FALSE
\* exists = db.scalar(select(T).where(T.user_id == ..., T.book_id == ...)):
\* the handlers' pre-check.
Exists(table, u, b) == RowsFor(table, u, b) # {}

\* --------------------------------------------------------------- wishlist
WishlistRow(id, u, b) == [id |-> id, user_id |-> u, book_id |-> b]

\* add_to_wishlist: request arrives; db.get(Book, payload.book_id).
AddToWishlist_GetBook(p) ==
    /\ CanStart(p)
    /\ \E u \in Users, b \in BookIds :
         LET r == NewReq("add_to_wishlist", "check", u, b) IN
         IF b \in books THEN Continue(p, r) ELSE Respond(p, r, HTTP_404_NOT_FOUND)
    /\ started' = started + 1
    /\ UNCHANGED <<tables, nextId>>

\* add_to_wishlist: the existence pre-check.
AddToWishlist_Check(p) ==
    /\ req[p].op = "add_to_wishlist" /\ req[p].pc = "check"
    /\ IF Exists(wishlists, req[p].user, req[p].book)
       THEN Respond(p, req[p], HTTP_409_CONFLICT)
       ELSE Continue(p, [req[p] EXCEPT !.pc = "commit"])
    /\ UNCHANGED <<tables, nextId, started>>

\* add_to_wishlist: db.add(entry); db.commit(); db.refresh(entry); return.
AddToWishlist_Commit(p) ==
    /\ req[p].op = "add_to_wishlist" /\ req[p].pc = "commit"
    /\ IF UniqueViolation(wishlists, req[p].user, req[p].book)
       THEN /\ Raise(p, req[p], "IntegrityError")
            /\ UNCHANGED <<wishlists, nextId>>
       ELSE /\ wishlists' = wishlists \cup {WishlistRow(nextId, req[p].user, req[p].book)}
            /\ nextId' = nextId + 1
            /\ Respond(p, [req[p] EXCEPT !.entry = nextId], HTTP_201_CREATED)
    /\ UNCHANGED <<books, purchases, libraries, reading_progress, started>>

OwnedBy_Anyone(entry, u) == entry # NoRow
\* remove_from_*: "not entry or entry.user_id != current_user.id" is a 404.
OwnedBy(entry, u) == entry # NoRow /\ entry.user_id = u

\* remove_from_wishlist: request arrives; db.get(Wishlist, entry_id) and the
\* ownership check.
RemoveFromWishlist_Get(p) ==
    /\ CanStart(p)
    /\ \E u \in Users, id \in 1..nextId :
         LET r == [NewReq("remove_from_wishlist", "delete", u, None) EXCEPT !.entry = id] IN
         IF OwnedBy(GetById(wishlists, id), u)
         THEN Continue(p, r)
         ELSE Respond(p, r, HTTP_404_NOT_FOUND)
    /\ started' = started + 1
    /\ UNCHANGED <<tables, nextId>>

\* remove_from_wishlist: db.delete(entry); db.commit(); 204.
RemoveFromWishlist_Delete(p) ==
    /\ req[p].op = "remove_from_wishlist" /\ req[p].pc = "delete"
    /\ wishlists' = {r \in wishlists : r.id # req[p].entry}
    /\ Respond(p, req[p], HTTP_204_NO_CONTENT)
    /\ UNCHANGED <<books, purchases, libraries, reading_progress, nextId, started>>

\* ---------------------------------------------------------------- library
LibraryRow(id, u, b, source) == [id |-> id, user_id |-> u, book_id |-> b, source |-> source]

\* add_to_library: payload.source or "manual".
SourceOrManual(source) == IF source = "" THEN "manual" ELSE source

\* add_to_library: request arrives; db.get(Book, payload.book_id).
AddToLibrary_GetBook(p) ==
    /\ CanStart(p)
    /\ \E u \in Users, b \in BookIds, src \in SourceInputs :
         LET r == [NewReq("add_to_library", "check", u, b) EXCEPT !.source = src] IN
         IF b \in books THEN Continue(p, r) ELSE Respond(p, r, HTTP_404_NOT_FOUND)
    /\ started' = started + 1
    /\ UNCHANGED <<tables, nextId>>

\* add_to_library: the existence pre-check.
AddToLibrary_Check(p) ==
    /\ req[p].op = "add_to_library" /\ req[p].pc = "check"
    /\ IF Exists(libraries, req[p].user, req[p].book)
       THEN Respond(p, req[p], HTTP_409_CONFLICT)
       ELSE Continue(p, [req[p] EXCEPT !.pc = "commit"])
    /\ UNCHANGED <<tables, nextId, started>>

\* add_to_library: db.add(entry); db.commit(); db.refresh(entry); return.
AddToLibrary_Commit(p) ==
    /\ req[p].op = "add_to_library" /\ req[p].pc = "commit"
    /\ IF UniqueViolation(libraries, req[p].user, req[p].book)
       THEN /\ Raise(p, req[p], "IntegrityError")
            /\ UNCHANGED <<libraries, nextId>>
       ELSE /\ libraries' = libraries \cup
                  {LibraryRow(nextId, req[p].user, req[p].book, SourceOrManual(req[p].source))}
            /\ nextId' = nextId + 1
            /\ Respond(p, [req[p] EXCEPT !.entry = nextId], HTTP_201_CREATED)
    /\ UNCHANGED <<books, wishlists, purchases, reading_progress, started>>

\* remove_from_library: request arrives; db.get(Library, entry_id) and the
\* ownership check.
RemoveFromLibrary_Get(p) ==
    /\ CanStart(p)
    /\ \E u \in Users, id \in 1..nextId :
         LET r == [NewReq("remove_from_library", "delete", u, None) EXCEPT !.entry = id] IN
         IF OwnedBy(GetById(libraries, id), u)
         THEN Continue(p, r)
         ELSE Respond(p, r, HTTP_404_NOT_FOUND)
    /\ started' = started + 1
    /\ UNCHANGED <<tables, nextId>>

RemoveFromLibrary_Delete_WithPurchase(p) ==
    /\ req[p].op = "remove_from_library" /\ req[p].pc = "delete"
    /\ libraries' = {r \in libraries : r.id # req[p].entry}
    /\ purchases' = {r \in purchases :
                        \A l \in libraries : l.id = req[p].entry =>
                            ~(r.user_id = l.user_id /\ r.book_id = l.book_id)}
    /\ Respond(p, req[p], HTTP_204_NO_CONTENT)
    /\ UNCHANGED <<books, wishlists, reading_progress, nextId, started>>
\* remove_from_library: db.delete(entry); db.commit(); 204.
RemoveFromLibrary_Delete(p) ==
    /\ req[p].op = "remove_from_library" /\ req[p].pc = "delete"
    /\ libraries' = {r \in libraries : r.id # req[p].entry}
    /\ Respond(p, req[p], HTTP_204_NO_CONTENT)
    /\ UNCHANGED <<books, wishlists, purchases, reading_progress, nextId, started>>

\* -------------------------------------------------------------- purchases
PurchaseRow(id, u, b) == [id |-> id, user_id |-> u, book_id |-> b]

\* The user_id of the row create_purchase stores: current_user.id.  The
\* payload (PurchaseCreate) carries a user_id of its own.
PurchaseOwner_FromPayload(r) == r.payload_user
PurchaseOwner(r) == r.user

\* create_purchase: request arrives; db.get(Book, payload.book_id).
CreatePurchase_GetBook(p) ==
    /\ CanStart(p)
    /\ \E u \in Users, b \in BookIds, payload_user \in Users :
         LET r == [NewReq("create_purchase", "check", u, b) EXCEPT !.payload_user = payload_user] IN
         IF b \in books THEN Continue(p, r) ELSE Respond(p, r, HTTP_404_NOT_FOUND)
    /\ started' = started + 1
    /\ UNCHANGED <<tables, nextId>>

\* create_purchase: the existence pre-check.
CreatePurchase_Check(p) ==
    /\ req[p].op = "create_purchase" /\ req[p].pc = "check"
    /\ IF Exists(purchases, req[p].user, req[p].book)
       THEN Respond(p, req[p], HTTP_409_CONFLICT)
       ELSE Continue(p, [req[p] EXCEPT !.pc = "commit"])
    /\ UNCHANGED <<tables, nextId, started>>

\* create_purchase: db.add(purchase); db.commit(); db.refresh(purchase).
\* The purchase is committed here, before the library step; req[p].entry
\* keeps the id of the committed purchase.
CreatePurchase_Commit(p) ==
    /\ req[p].op = "create_purchase" /\ req[p].pc = "commit"
    /\ IF UniqueViolation(purchases, req[p].user, req[p].book)
       THEN /\ Raise(p, req[p], "IntegrityError")
            /\ UNCHANGED <<purchases, nextId>>
       ELSE /\ purchases' = purchases \cup {PurchaseRow(nextId, PurchaseOwner(req[p]), req[p].book)}
            /\ nextId' = nextId + 1
            /\ Continue(p, [req[p] EXCEPT !.pc = "lib_check", !.entry = nextId])
    /\ UNCHANGED <<books, wishlists, libraries, reading_progress, started>>

LibExists_Always(u, b) == TRUE
\* create_purchase: lib_exists = db.scalar(select(Library).where(...)).
LibExists(u, b) == RowsFor(libraries, u, b) # {}

\* create_purchase: "if not lib_exists"; when a row exists the handler
\* returns the purchase.
CreatePurchase_LibCheck(p) ==
    /\ req[p].op = "create_purchase" /\ req[p].pc = "lib_check"
    /\ IF LibExists(req[p].user, req[p].book)
       THEN Respond(p, req[p], HTTP_201_CREATED)
       ELSE Continue(p, [req[p] EXCEPT !.pc = "lib_commit"])
    /\ UNCHANGED <<tables, nextId, started>>

\* create_purchase: db.add(lib_entry); db.commit(); return.
CreatePurchase_LibCommit(p) ==
    /\ req[p].op = "create_purchase" /\ req[p].pc = "lib_commit"
    /\ IF UniqueViolation(libraries, req[p].user, req[p].book)
       THEN /\ Raise(p, req[p], "IntegrityError")
            /\ UNCHANGED <<libraries, nextId>>
       ELSE /\ libraries' = libraries \cup
                  {LibraryRow(nextId, req[p].user, req[p].book, "purchase")}
            /\ nextId' = nextId + 1
            /\ Respond(p, req[p], HTTP_201_CREATED)
    /\ UNCHANGED <<books, wishlists, purchases, reading_progress, started>>

\* -------------------------------------------------------- reading progress
ProgressFields == {"progress_percent", "current_chapter", "current_location", "is_completed"}

\* Columns declared nullable=False.
NotNullFields == {"progress_percent", "is_completed"}

\* Column defaults of ReadingProgress: 0.0, NULL, NULL, False.
ProgressDefaults == [progress_percent |-> "0.0", current_chapter |-> None,
                     current_location |-> None, is_completed |-> "False"]

\* Request bodies of ReadingProgressUpsertRequest.  A field is Unset when the
\* body does not name it and None when the body gives it as null; every field
\* is typed "T | None", so null passes validation for all four.  Values are
\* written as the literals of the request body.
Payloads ==
    { NoPayload,
      [NoPayload EXCEPT !.progress_percent = "42.5"],
      [NoPayload EXCEPT !.is_completed = "True"],
      [NoPayload EXCEPT !.current_chapter = "ch1", !.current_location = "loc1"],
      [NoPayload EXCEPT !.current_chapter = None],
      [NoPayload EXCEPT !.is_completed = None] }

\* payload.model_dump(exclude_unset=True): the fields the body names.
ModelDumpExcludeUnset(payload) == {f \in ProgressFields : payload[f] # Unset}

ProgressRow(id, u, b, vals) ==
    [id |-> id, user_id |-> u, book_id |-> b,
     progress_percent |-> vals.progress_percent,
     current_chapter |-> vals.current_chapter,
     current_location |-> vals.current_location,
     is_completed |-> vals.is_completed]

\* The object after "for field, value in data.items(): setattr(...)".
SetAttrs(obj, payload) ==
    [f \in DOMAIN obj |->
        IF f \in ModelDumpExcludeUnset(payload) THEN payload[f] ELSE obj[f]]

\* INSERT of a new object: an attribute that is None is left out of the
\* statement, so the column default is stored.
InsertValues(obj) ==
    [f \in ProgressFields |-> IF obj[f] = None THEN ProgressDefaults[f] ELSE obj[f]]

\* UPDATE of a loaded object: the columns whose value differs from the value
\* that was loaded.
ChangedFields(loaded, obj) == {f \in ProgressFields : obj[f] # loaded[f]}

\* A new ReadingProgress(user_id, book_id): no progress attribute set yet.
NewProgress == [f \in ProgressFields |-> None]

LoadedValues(row) == [f \in ProgressFields |-> row[f]]

\* upsert_progress_for_book: request arrives; db.get(Book, book_id).
Upsert_GetBook(p) ==
    /\ CanStart(p)
    /\ \E u \in Users, b \in BookIds, pl \in Payloads :
         LET r == [NewReq("upsert_progress", "select", u, b) EXCEPT !.payload = pl] IN
         IF b \in books THEN Continue(p, r) ELSE Respond(p, r, HTTP_404_NOT_FOUND)
    /\ started' = started + 1
    /\ UNCHANGED <<tables, nextId>>

\* upsert_progress_for_book: progress = db.scalar(select(ReadingProgress)...);
\* created = (progress is None).
Upsert_Select(p) ==
    /\ req[p].op = "upsert_progress" /\ req[p].pc = "select"
    /\ LET rows == RowsFor(reading_progress, req[p].user, req[p].book) IN
       IF rows = {}
       THEN Continue(p, [req[p] EXCEPT !.pc = "commit", !.created = TRUE, !.found = NoRow])
       ELSE Continue(p, [req[p] EXCEPT !.pc = "commit", !.created = FALSE,
                                       !.found = CHOOSE r \in rows : TRUE])
    /\ UNCHANGED <<tables, nextId, started>>

\* The status of a successful upsert: response.status_code = 201 "if created",
\* else the route's default 200.
UpsertStatus(created) == IF created THEN HTTP_201_CREATED ELSE HTTP_200_OK

\* upsert_progress_for_book: setattr loop; db.add(progress); db.commit();
\* db.refresh(progress); return.
Upsert_Commit(p) ==
    /\ req[p].op = "upsert_progress" /\ req[p].pc = "commit"
    /\ IF req[p].created
       THEN IF UniqueViolation(reading_progress, req[p].user, req[p].book)
            THEN /\ Raise(p, req[p], "IntegrityError")
                 /\ UNCHANGED <<reading_progress, nextId>>
            ELSE /\ reading_progress' = reading_progress \cup
                       {ProgressRow(nextId, req[p].user, req[p].book,
                                    InsertValues(SetAttrs(NewProgress, req[p].payload)))}
                 /\ nextId' = nextId + 1
                 /\ Respond(p, [req[p] EXCEPT !.entry = nextId], UpsertStatus(TRUE))
       ELSE LET loaded  == LoadedValues(req[p].found)
                obj     == SetAttrs(loaded, req[p].payload)
                changed == ChangedFields(loaded, obj)
                cur     == GetById(reading_progress, req[p].found.id)
                r       == [req[p] EXCEPT !.entry = req[p].found.id]
            IN  /\ nextId' = nextId
                /\ IF changed = {}
                   THEN /\ Respond(p, r, UpsertStatus(FALSE))
                        /\ UNCHANGED reading_progress
                   ELSE IF \E f \in changed \cap NotNullFields : obj[f] = None
                   THEN /\ Raise(p, r, "IntegrityError")
                        /\ UNCHANGED reading_progress
                   ELSE IF cur = NoRow
                   THEN /\ Raise(p, r, "StaleDataError")
                        /\ UNCHANGED reading_progress
                   ELSE /\ reading_progress' =
                             (reading_progress \ {cur}) \cup
                             {[f \in DOMAIN cur |-> IF f \in changed THEN obj[f] ELSE cur[f]]}
                        /\ Respond(p, r, UpsertStatus(FALSE))
    /\ UNCHANGED <<books, wishlists, purchases, libraries, started>>

\* ------------------------------------------------------------------ auth
\* Settings.secret_key, and a key the server does not use.
SecretKey == "secret_key"
OtherKey == "other_key"

\* settings.access_token_expire_minutes / refresh_token_expire_minutes: the
\* access token is short-lived, the refresh token long-lived.
AccessTokenExpireMinutes == 1
RefreshTokenExpireMinutes == 2

HTTP_401_UNAUTHORIZED == 401
HTTP_403_FORBIDDEN == 403

\* dict.get(key).
Get(d, k) == IF k \in DOMAIN d THEN d[k] ELSE None

\* payload.update(extra_claims).
Update(payload, extra) ==
    [k \in DOMAIN payload \cup DOMAIN extra |->
        IF k \in DOMAIN extra THEN extra[k] ELSE payload[k]]

\* extra_claims absent (None): "if extra_claims:" adds nothing.
NoExtraClaims == [k \in {} |-> None]

\* jwt.encode(payload, key): the claims and the key that signed them.
JwtEncode(payload, key) == [payload |-> payload, key |-> key]

\* _create_token(subject, expires_minutes, token_type, extra_claims).
CreateToken(subject, expires_minutes, token_type, extra_claims) ==
    JwtEncode(Update([sub |-> subject, type |-> token_type,
                      iat |-> now, exp |-> now + expires_minutes],
                     extra_claims),
              SecretKey)

CreateAccessToken(subject, extra_claims) ==
    CreateToken(subject, AccessTokenExpireMinutes, "access", extra_claims)

CreateRefreshToken(subject, extra_claims) ==
    CreateToken(subject, RefreshTokenExpireMinutes, "refresh", extra_claims)

\* create_token_pair_for_user(user): <<access, refresh>>.
CreateTokenPairForUser(user) ==
    <<CreateAccessToken(user.id, [email |-> user.email]), CreateRefreshToken(user.id, NoExtraClaims)>>

JwtError_NoExpiry(token) == token.key # SecretKey
JwtError_Always(token) == TRUE
\* jwt.decode raises JWTError for a signature made with another key and for
\* an expiry that lies before the current time.
JwtError(token) == token.key # SecretKey \/ Get(token.payload, "exp") < now

TypeMismatch_Never(payload, expected_type) == FALSE
\* get_token_payload: expected_type is not None and payload.get("type") != expected_type.
TypeMismatch(payload, expected_type) ==
    expected_type # None /\ Get(payload, "type") # expected_type

\* get_token_payload(token, expected_type): the claims, or the status of the
\* HTTPException raised by decode_token or by the type check.
GetTokenPayload(token, expected_type) ==
    IF JwtError(token) THEN [ok |-> FALSE, status |-> HTTP_401_UNAUTHORIZED]
    ELSE IF TypeMismatch(token.payload, expected_type)
    THEN [ok |-> FALSE, status |-> HTTP_401_UNAUTHORIZED]
    ELSE [ok |-> TRUE, payload |-> token.payload]

UserById_AsIssued(id) ==
    IF \E u \in InitialUsers : u.id = id THEN CHOOSE u \in InitialUsers : u.id = id ELSE NoRow
\* db.scalar(select(User).where(User.id == user_id)).
UserById(id) == IF \E u \in users : u.id = id THEN CHOOSE u \in users : u.id = id ELSE NoRow

UserByEmail_Never(email) == NoRow
UserByEmail(email) ==
    IF \E u \in users : u.email = email THEN CHOOSE u \in users : u.email = email ELSE NoRow

\* Tokens a client can present: the ones minted by the server and ones it
\* signed itself with a key of its own.
ForgedTokens ==
    {JwtEncode([sub |-> u.id, type |-> ty, iat |-> 0, exp |-> RefreshTokenExpireMinutes],
               OtherKey) : u \in users, ty \in {"access", "refresh"}}

Presentable == {i.token : i \in issued} \cup ForgedTokens

\* Authorization headers: absent, a non-bearer scheme, or "Bearer <token>".
NoHeader == [scheme |-> None]
BasicHeader == [scheme |-> "Basic"]
Headers == {NoHeader, BasicHeader} \cup {[scheme |-> "Bearer", token |-> t] : t \in Presentable}

\* not authorization or not authorization.lower().startswith("bearer ").
NotBearer(h) == h.scheme # "Bearer"

Outcome(endpoint, h, code) == [endpoint |-> endpoint, header |-> h, status |-> code]

Mint_Nothing(user) == issued' = issued
Mint(user) ==
    issued' = issued \cup {[token |-> CreateTokenPairForUser(user)[1], kind |-> "access"],
                           [token |-> CreateTokenPairForUser(user)[2], kind |-> "refresh"]}

CanMint == Cardinality(issued) < 2 * MaxPairs

\* POST /auth/login: the user by email, verify_password (its verdict is the
\* input pwd_ok), the active check, then a new token pair.
Login ==
    /\ CanMint
    /\ \E email \in Emails, pwd_ok \in BOOLEAN :
         LET user == UserByEmail(email)
             h == [scheme |-> "login", email |-> email] IN
         IF user = NoRow \/ ~pwd_ok
         THEN auth' = Outcome("login", h, HTTP_401_UNAUTHORIZED) /\ UNCHANGED issued
         ELSE IF ~user.is_active
         THEN auth' = Outcome("login", h, HTTP_401_UNAUTHORIZED) /\ UNCHANGED issued
         ELSE auth' = Outcome("login", h, HTTP_200_OK) /\ Mint(user)
    /\ UNCHANGED <<users, now, redeemed, resourceVars, utilVars, catVars, signinVars>>

\* POST /auth/refresh: the refresh token arrives in the body.
RefreshTokens ==
    /\ CanMint
    /\ \E t \in Presentable :
         LET h == [scheme |-> "Body", token |-> t]
             claims == GetTokenPayload(t, "refresh") IN
         IF ~claims.ok
         THEN auth' = Outcome("refresh", h, claims.status) /\ UNCHANGED <<issued, redeemed>>
         ELSE IF Get(claims.payload, "sub") = None
         THEN auth' = Outcome("refresh", h, HTTP_401_UNAUTHORIZED) /\ UNCHANGED <<issued, redeemed>>
         ELSE LET user == UserById(Get(claims.payload, "sub")) IN
              IF user = NoRow \/ ~user.is_active
              THEN auth' = Outcome("refresh", h, HTTP_401_UNAUTHORIZED)
                   /\ UNCHANGED <<issued, redeemed>>
              ELSE auth' = Outcome("refresh", h, HTTP_200_OK) /\ Mint(user)
                   /\ redeemed' = redeemed \cup {[token |-> t, at |-> now]}
    /\ UNCHANGED <<users, now, resourceVars, utilVars, catVars, signinVars>>

\* get_current_user: the dependency of the wishlist, library, purchases and
\* reading routes (oauth2_scheme answers 401 without a bearer header).
GetCurrentUser ==
    /\ \E h \in Headers :
         IF NotBearer(h)
         THEN auth' = Outcome("get_current_user", h, HTTP_401_UNAUTHORIZED)
         ELSE LET claims == GetTokenPayload(h.token, "access") IN
              IF ~claims.ok
              THEN auth' = Outcome("get_current_user", h, claims.status)
              ELSE IF Get(claims.payload, "sub") = None
              THEN auth' = Outcome("get_current_user", h, HTTP_401_UNAUTHORIZED)
              ELSE LET user == UserById(Get(claims.payload, "sub")) IN
                   IF user = NoRow \/ ~user.is_active
                   THEN auth' = Outcome("get_current_user", h, HTTP_401_UNAUTHORIZED)
                   ELSE auth' = Outcome("get_current_user", h, HTTP_200_OK)
    /\ UNCHANGED <<users, issued, now, redeemed, resourceVars, utilVars, catVars, signinVars>>

\* _auth_required of the storage router and of the payments router: the same
\* code in both.
AuthRequired(endpoint) ==
    /\ \E h \in Headers :
         IF NotBearer(h)
         THEN auth' = Outcome(endpoint, h, HTTP_401_UNAUTHORIZED)
         ELSE IF ~GetTokenPayload(h.token, "access").ok
         THEN auth' = Outcome(endpoint, h, HTTP_401_UNAUTHORIZED)
         ELSE auth' = Outcome(endpoint, h, HTTP_200_OK)
    /\ UNCHANGED <<users, issued, now, redeemed, resourceVars, utilVars, catVars, signinVars>>

StorageAuthRequired == AuthRequired("storage")

PaymentsAuthRequired == AuthRequired("payments")

\* _admin_required of the admin router.
AdminRequired ==
    /\ \E h \in Headers :
         IF NotBearer(h)
         THEN auth' = Outcome("admin", h, HTTP_401_UNAUTHORIZED)
         ELSE LET claims == GetTokenPayload(h.token, "access") IN
              IF ~claims.ok
              THEN auth' = Outcome("admin", h, HTTP_401_UNAUTHORIZED)
              ELSE LET user == UserById(claims.payload["sub"]) IN
                   IF user = NoRow \/ ~user.is_superuser
                   THEN auth' = Outcome("admin", h, HTTP_403_FORBIDDEN)
                   ELSE auth' = Outcome("admin", h, HTTP_200_OK)
    /\ UNCHANGED <<users, issued, now, redeemed, resourceVars, utilVars, catVars, signinVars>>

\* ------------------------------------------------------------ google sign-in
\* settings.google_client_id, configured.
GoogleClientId == "client-id"

HTTP_400_BAD_REQUEST == 400

Truthy_Always(v) == TRUE
\* Python truthiness of a claim value (None stands for an absent key or null,
\* "False" and "True" for the booleans).
Truthy(v) == v \notin {None, "", "False"}

GoogleClaims(email_verified, email, name, picture) ==
    [email_verified |-> email_verified, email |-> email, name |-> name, picture |-> picture]

\* The ID tokens a client can send: valid tells whether
\* verify_oauth2_token accepts the token, claims is what it then returns.
Assertions ==
    {[valid |-> FALSE, claims |-> GoogleClaims("True", e, None, None)] : e \in {"u1", "g1"}}
    \cup {[valid |-> TRUE, claims |-> GoogleClaims(ev, e, None, None)] :
             ev \in {None, "False"}, e \in {"u1", "g1"}}
    \cup {[valid |-> TRUE, claims |-> GoogleClaims("True", e, n, p)] :
             e \in {None, "", "u1", "u3", "g1"}, n \in {None, "Ann", "Bob"},
             p \in {None, "pic1"}}

\* secrets.token_urlsafe(32).
RandomPasswords == {<<"r", "1">>, <<"r", "2">>}

\* uuid4 primary keys: ids no row and no token has carried.
UserIdPool == {"u4", "u5"}
FreshUserIds ==
    {id \in UserIdPool :
        /\ \A u \in users : u.id # id
        /\ \A i \in issued : i.token.payload["sub"] # id}

CanCreateUser ==
    /\ FreshUserIds # {}
    /\ Cardinality({u \in users : u.id \in UserIdPool}) < MaxNewUsers

\* _extract_profile(claims).
ExtractProfile(claims) ==
    [email |-> IF Truthy(Get(claims, "email")) THEN Get(claims, "email") ELSE "",
     email_verified |-> Truthy(Get(claims, "email_verified")),
     name |-> Get(claims, "name"),
     picture |-> Get(claims, "picture")]

\* get_or_create_user_from_google(db, claims), with the id and the random
\* password a new row would get: the exception raised or the user returned,
\* and the users table afterwards.
GetOrCreateUserFromGoogle(claims, new_id, random_pw) ==
    LET profile == ExtractProfile(claims)
        user == UserByEmail(profile.email) IN
    IF profile.email = ""
    THEN [exc |-> "ValueError", user |-> NoRow, users |-> users]
    ELSE IF user # NoRow
    THEN LET updated ==
                 [user EXCEPT
                    !.full_name = IF Truthy(profile.name) /\ user.full_name # profile.name
                                  THEN profile.name ELSE @,
                    !.avatar_url = IF Truthy(profile.picture) /\ user.avatar_url # profile.picture
                                   THEN profile.picture ELSE @] IN
         [exc |-> None, user |-> updated, users |-> (users \ {user}) \cup {updated}]
    ELSE LET created ==
                 [id |-> new_id, email |-> profile.email,
                  hashed_password |-> GetPasswordHash(random_pw),
                  full_name |-> profile.name, avatar_url |-> profile.picture,
                  is_active |-> TRUE, is_superuser |-> FALSE] IN
         [exc |-> None, user |-> created, users |-> users \cup {created}]

GoogleOutcome(a, code, user) ==
    [endpoint |-> "google", header |-> [scheme |-> "google", assertion |-> a],
     status |-> code, user |-> user]

\* POST /auth/google.
GoogleSignIn ==
    /\ \E a \in Assertions, random_pw \in RandomPasswords :
         IF ~Truthy(GoogleClientId)
         THEN auth' = GoogleOutcome(a, HTTP_500_INTERNAL, NoRow) /\ UNCHANGED <<users, issued>>
         ELSE IF ~a.valid
         THEN auth' = GoogleOutcome(a, HTTP_400_BAD_REQUEST, NoRow) /\ UNCHANGED <<users, issued>>
         ELSE IF ~Truthy(Get(a.claims, "email_verified"))
         THEN auth' = GoogleOutcome(a, HTTP_400_BAD_REQUEST, NoRow) /\ UNCHANGED <<users, issued>>
         ELSE /\ UserByEmail(ExtractProfile(a.claims).email) = NoRow
                    /\ ExtractProfile(a.claims).email # "" => CanCreateUser
              /\ LET new_id == IF FreshUserIds = {} THEN None
                               ELSE CHOOSE id \in FreshUserIds : TRUE
                     result == GetOrCreateUserFromGoogle(a.claims, new_id, random_pw) IN
                 IF result.exc = "ValueError"
                 THEN auth' = GoogleOutcome(a, HTTP_400_BAD_REQUEST, NoRow)
                      /\ UNCHANGED <<users, issued>>
                 ELSE /\ users' = result.users
                      /\ Mint(result.user)
                      /\ auth' = GoogleOutcome(a, HTTP_200_OK, result.user)
    /\ UNCHANGED <<now, redeemed, resourceVars, utilVars, catVars, signinVars>>

\* POST /auth/google handled by a worker, statement by statement, so that
\* two sign-ins interleave.
IdleSignIn == [pc |-> "idle", assertion |-> [valid |-> FALSE], found |-> NoRow]

\* Assertions that pass verification and assert a verified email.
VerifiedAssertions ==
    {a \in Assertions : a.valid /\ Truthy(Get(a.claims, "email_verified"))
                          /\ ExtractProfile(a.claims).email # ""}

UserEmailUniqueViolation_Off(email) == FALSE
\* email is unique=True: the database refuses a second row with the email
\* (IntegrityError at flush).
UserEmailUniqueViolation(email) == \E u \in users : u.email = email

\* google_sign_in up to the lookup of get_or_create_user_from_google:
\* user = db.scalar(select(User).where(User.email == email)).
GoogleSignIn_Lookup(p) ==
    /\ google_req[p].pc = "idle" /\ google_started < MaxSignIns
    /\ \E a \in VerifiedAssertions :
         google_req' = [google_req EXCEPT ![p] =
             [pc |-> "commit", assertion |-> a,
              found |-> UserByEmail(ExtractProfile(a.claims).email)]]
    /\ google_started' = google_started + 1
    /\ UNCHANGED <<authVars, resourceVars, utilVars, catVars>>

\* The rest of get_or_create_user_from_google and of google_sign_in: the
\* profile update of the user found, or the INSERT of a new one; then the
\* token pair.
GoogleSignIn_Commit(p) ==
    LET a == google_req[p].assertion
        profile == ExtractProfile(a.claims)
        user == google_req[p].found IN
    /\ google_req[p].pc = "commit"
    /\ google_req' = [google_req EXCEPT ![p] = IdleSignIn]
    /\ IF user # NoRow
       THEN LET dirty == {f \in {"full_name", "avatar_url"} :
                            LET v == IF f = "full_name" THEN profile.name ELSE profile.picture
                            IN  Truthy(v) /\ user[f] # v}
                stored == UserById(user.id)
                updated == [f \in DOMAIN user |->
                              IF f = "full_name" /\ f \in dirty THEN profile.name
                              ELSE IF f = "avatar_url" /\ f \in dirty THEN profile.picture
                              ELSE user[f]] IN
            IF dirty # {} /\ stored = NoRow
            THEN \* the row was deleted meanwhile: the UPDATE matches no row
                 /\ auth' = GoogleOutcome(a, HTTP_500_INTERNAL, NoRow)
                 /\ UNCHANGED <<users, issued>>
            ELSE /\ users' = IF dirty = {} THEN users
                             ELSE (users \ {stored}) \cup
                                  {[f \in DOMAIN stored |->
                                      IF f \in dirty THEN updated[f] ELSE stored[f]]}
                 /\ Mint(updated)
                 /\ auth' = GoogleOutcome(a, HTTP_200_OK, updated)
       ELSE IF UserEmailUniqueViolation(profile.email)
       THEN \* IntegrityError at db.commit(): google_sign_in catches ValueError only
            /\ auth' = GoogleOutcome(a, HTTP_500_INTERNAL, NoRow)
            /\ UNCHANGED <<users, issued>>
       ELSE /\ FreshUserIds # {}
            /\ \E random_pw \in RandomPasswords :
                 LET created ==
                         [id |-> CHOOSE id \in FreshUserIds : TRUE, email |-> profile.email,
                          hashed_password |-> GetPasswordHash(random_pw),
                          full_name |-> profile.name, avatar_url |-> profile.picture,
                          is_active |-> TRUE, is_superuser |-> FALSE] IN
                 /\ users' = users \cup {created}
                 /\ Mint(created)
                 /\ auth' = GoogleOutcome(a, HTTP_200_OK, created)
    /\ UNCHANGED <<now, redeemed, google_started, resourceVars, utilVars, catVars>>

\* The users table changes under the handlers: the persisted flags is_active
\* and is_superuser are ordinary columns, and a row can be deleted.
SetUser(u, row) == users' = (users \ {u}) \cup {row}

CanChange(u) == u \notin InitialUsers \/ Cardinality(InitialUsers \ users) < MaxUserChanges

DeactivateUser ==
    /\ \E u \in users :
         /\ u.is_active /\ CanChange(u)
         /\ SetUser(u, [u EXCEPT !.is_active = FALSE])
    /\ UNCHANGED <<issued, now, auth, redeemed, resourceVars, utilVars, catVars, signinVars>>

ClearSuperuser ==
    /\ \E u \in users :
         /\ u.is_superuser /\ CanChange(u)
         /\ SetUser(u, [u EXCEPT !.is_superuser = FALSE])
    /\ UNCHANGED <<issued, now, auth, redeemed, resourceVars, utilVars, catVars, signinVars>>

DeleteUser ==
    /\ \E u \in users : CanChange(u) /\ users' = users \ {u}
    /\ UNCHANGED <<issued, now, auth, redeemed, resourceVars, utilVars, catVars, signinVars>>

\* A minute passes.
Tick ==
    /\ now < MaxTime
    /\ now' = now + 1
    /\ UNCHANGED <<users, issued, auth, redeemed, resourceVars, utilVars, catVars, signinVars>>

\* ------------------------------------------------------------- pagination
DEFAULT_PAGE_SIZE == 20
MAX_PAGE_SIZE == 100

\* An optional integer argument: << >> is None, <<n>> the integer n.
Absent == << >>
Some(n) == <<n>>

\* "v or d" for an optional integer: None and 0 are false.
OrDefault(v, d) == IF v = Absent \/ v = Some(0) THEN d ELSE v[1]

Max(a, b) == IF a >= b THEN a ELSE b

SanitizePagination_NoClamp(page, page_size) ==
    <<Max(1, OrDefault(page, 1)), OrDefault(page_size, DEFAULT_PAGE_SIZE)>>
\* sanitize_pagination(page, page_size) -> (page, size).
SanitizePagination(page, page_size) ==
    LET p == Max(1, OrDefault(page, 1))
        size0 == OrDefault(page_size, DEFAULT_PAGE_SIZE)
        size1 == IF size0 < 1 THEN DEFAULT_PAGE_SIZE ELSE size0
        size2 == IF size1 > MAX_PAGE_SIZE THEN MAX_PAGE_SIZE ELSE size1
    IN  <<p, size2>>

\* total / page_size: the quotient, kept exact as whole part and remainder.
TrueDiv(a, b) == [whole |-> a \div b, rest |-> a % b]

PyCeil_Floor(x) == x.whole
\* math.ceil.
PyCeil(x) == IF x.rest = 0 THEN x.whole ELSE x.whole + 1

\* PageMeta.build(total, page, page_size).
PageMetaBuild(total, page, page_size) ==
    LET p == SanitizePagination(page, page_size)[1]
        size == SanitizePagination(page, page_size)[2]
        total_pages == Max(IF size # 0 THEN PyCeil(TrueDiv(total, size)) ELSE 1, 1)
    IN  [page |-> p, page_size |-> size, total |-> total, total_pages |-> total_pages]

OffsetLimit_FromPage(page, page_size) ==
    <<SanitizePagination(page, page_size)[1] * SanitizePagination(page, page_size)[2],
      SanitizePagination(page, page_size)[2]>>
\* offset_limit(page, page_size) -> (offset, limit).
OffsetLimit(page, page_size) ==
    LET p == SanitizePagination(page, page_size)[1]
        size == SanitizePagination(page, page_size)[2]
        offset == (p - 1) * size
    IN  <<offset, size>>

\* The passwords of the verify_password calls: short ones, the empty one,
\* one of exactly 72 bytes and two longer ones that differ in byte 73.
LongPassword(c) == [i \in 1..(BCRYPT_MAX_BYTES + 1) |-> IF i <= BCRYPT_MAX_BYTES THEN "a" ELSE c]
Passwords ==
    {<< >>, <<"a">>, <<"b">>, <<"a", "b">>, Truncate(LongPassword("x")),
     LongPassword("x"), LongPassword("y")}

\* Strings that are not bcrypt hashes: the empty string, a plaintext.
MalformedHashes == {[scheme |-> "unknown", text |-> << >>], [scheme |-> "unknown", text |-> <<"a">>]}

StoredHashes == {PwdContextHash(p, s) : p \in Passwords, s \in Salts} \cup MalformedHashes

\* The calls of the utility functions.
NoCall == [fn |-> "none", args |-> << >>, done |-> TRUE, result |-> << >>]
Pending(fn, args) == [fn |-> fn, args |-> args, done |-> FALSE, result |-> << >>]

PageInputs == {Absent} \cup {Some(n) : n \in (0 - 2)..MaxPage}
PageSizeInputs == {Absent} \cup {Some(n) : n \in {0 - 1, 0, 1, 2, 3, 20, 99, 100, 101, 500}}
TotalInputs == 0..MaxTotal \cup {99, 100, 101, 199, 200, 201}

SanitizeCalls ==
    {Pending("sanitize_pagination", <<p, s>>) : p \in PageInputs, s \in PageSizeInputs}
BuildCalls ==
    {Pending("PageMeta.build", <<t, Some(1), s>>) : t \in TotalInputs, s \in PageSizeInputs}

OffsetLimitCalls ==
    {Pending("offset_limit", <<p, s>>) : p \in PageInputs \ {Absent}, s \in PageSizeInputs \ {Absent}}

VerifyCalls == {Pending("verify_password", <<q, h>>) : q \in Passwords, h \in StoredHashes}

\* extra_claims mappings a caller passes: none, the one of
\* create_token_pair_for_user, an unrelated claim, and claims named like the
\* registered ones.
ExtraClaimsInputs ==
    {NoExtraClaims, [email |-> "u1"], [role |-> "admin"], [sub |-> "u2"],
     [type |-> "refresh"], [type |-> "access"], [iat |-> 1], [exp |-> MaxTime + 50]}

CreateTokenCalls ==
    {Pending(fn, <<subject, extra>>) :
        fn \in {"create_access_token", "create_refresh_token"},
        subject \in {"u1", "u2"}, extra \in ExtraClaimsInputs}

Return(result) == call' = [call EXCEPT !.done = TRUE, !.result = result]

Call_SanitizePagination ==
    /\ call.fn = "sanitize_pagination" /\ ~call.done
    /\ Return(SanitizePagination(call.args[1], call.args[2]))
    /\ UNCHANGED <<resourceVars, authVars, catVars, signinVars>>

Call_PageMetaBuild ==
    /\ call.fn = "PageMeta.build" /\ ~call.done
    /\ Return(PageMetaBuild(call.args[1], call.args[2], call.args[3]))
    /\ UNCHANGED <<resourceVars, authVars, catVars, signinVars>>

Call_OffsetLimit ==
    /\ call.fn = "offset_limit" /\ ~call.done
    /\ Return(OffsetLimit(call.args[1], call.args[2]))
    /\ UNCHANGED <<resourceVars, authVars, catVars, signinVars>>

Call_VerifyPassword ==
    /\ call.fn = "verify_password" /\ ~call.done
    /\ Return(VerifyPassword(call.args[1], call.args[2]))
    /\ UNCHANGED <<resourceVars, authVars, catVars, signinVars>>

Call_CreateAccessToken ==
    /\ call.fn = "create_access_token" /\ ~call.done
    /\ Return(CreateAccessToken(call.args[1], call.args[2]))
    /\ UNCHANGED <<resourceVars, authVars, catVars, signinVars>>

Call_CreateRefreshToken ==
    /\ call.fn = "create_refresh_token" /\ ~call.done
    /\ Return(CreateRefreshToken(call.args[1], call.args[2]))
    /\ UNCHANGED <<resourceVars, authVars, catVars, signinVars>>

\* ---------------------------------------------------------------- slugify
\* Strings are sequences of characters.  The characters of the names: a
\* lowercase and an uppercase letter, a digit, the hyphen, a blank, a
\* punctuation mark, a letter outside ASCII.
Chars == {"a", "B", "7", "-", " ", "&", "é"}

AsciiLower == {"a", "b", "c", "d", "e", "f", "g", "h", "i", "j", "k", "l", "m",
               "n", "o", "p", "q", "r", "s", "t", "u", "v", "w", "x", "y", "z"}
Digits == {"0", "1", "2", "3", "4", "5", "6", "7", "8", "9"}

\* The characters the pattern [^a-z0-9] does not match.
SlugChars == AsciiLower \cup Digits

Whitespace == {" "}

\* str.lower(), character by character.
Lower(c) ==
    CASE c = "B" -> "b"
      [] c = "S" -> "s"
      [] c = "F" -> "f"
      [] c = "É" -> "é"
      [] OTHER -> c

LowerStr(value) == [i \in 1..Len(value) |-> Lower(value[i])]

RECURSIVE StripLeft(_, _)
StripLeft(value, cs) ==
    IF value = << >> \/ value[1] \notin cs THEN value ELSE StripLeft(Tail(value), cs)

RECURSIVE StripRight(_, _)
StripRight(value, cs) ==
    IF value = << >> \/ value[Len(value)] \notin cs THEN value
    ELSE StripRight(SubSeq(value, 1, Len(value) - 1), cs)

Strip_Nothing(value, cs) == value
\* str.strip(): the characters of cs removed from both ends.
Strip(value, cs) == StripRight(StripLeft(value, cs), cs)

\* The rest of value after its leading characters outside SlugChars.
RECURSIVE SkipRun(_)
SkipRun(value) ==
    IF value = << >> \/ value[1] \in SlugChars THEN value ELSE SkipRun(Tail(value))

\* re.sub(r"[^a-z0-9]+", "-", value).
RECURSIVE SubNonAlnum(_)
SubNonAlnum(value) ==
    IF value = << >> THEN << >>
    ELSE IF value[1] \in SlugChars THEN <<value[1]>> \o SubNonAlnum(Tail(value))
    ELSE <<"-">> \o SubNonAlnum(SkipRun(value))

\* re.sub(r"-{2,}", "-", value).
RECURSIVE CollapseHyphens(_)
CollapseHyphens(value) ==
    IF Len(value) < 2 THEN value
    ELSE IF value[1] = "-" /\ value[2] = "-" THEN CollapseHyphens(Tail(value))
    ELSE <<value[1]>> \o CollapseHyphens(Tail(value))

DefaultSlug == <<"c", "a", "t", "e", "g", "o", "r", "y">>

\* _slugify(value).
Slugify(value) ==
    LET lowered == LowerStr(Strip(value, Whitespace))
        hyphened == SubNonAlnum(lowered)
        trimmed == Strip(CollapseHyphens(hyphened), {"-"}) IN
    IF trimmed = << >> THEN DefaultSlug ELSE trimmed

SciFiAndFantasy ==
    <<"S", "c", "i", "-", "F", "i", " ", "&", " ", "F", "a", "n", "t", "a", "s", "y", "!", "!">>

Names == UNION {[1..n -> Chars] : n \in 0..MaxLen} \cup {SciFiAndFantasy}

SlugifyCalls == {Pending("_slugify", <<name>>) : name \in Names}

Call_Slugify ==
    /\ call.fn = "_slugify" /\ ~call.done
    /\ Return(Slugify(call.args[1]))
    /\ UNCHANGED <<resourceVars, authVars, catVars, signinVars>>

\* ------------------------------------------------------------- categories
CategoryRow(id, name, slug) == [id |-> id, name |-> name, slug |-> slug]

\* A field of a request body: whether the client sent it, and its value,
\* Absent for null and Some(string) for a string.
NotGiven == [given |-> FALSE, value |-> Absent]
Given(value) == [given |-> TRUE, value |-> value]

\* Truthiness of a str | None.
StrTruthy(value) == value # Absent /\ value[1] # << >>

\* Names clients send; two of them have the same slug.
CatNames == {<<"B">>, <<"b">>, <<"a">>}

\* Slugs clients send explicitly.
CatSlugs == {<<"b">>}

CatIds == 1..MaxCatReqs

\* CategoryCreate: name required and non-empty, slug optional and non-empty.
CreatePayloads ==
    {[name |-> Given(Some(n)), slug |-> g] :
        n \in CatNames, g \in {NotGiven} \cup {Given(Some(sl)) : sl \in CatSlugs}}

\* CategoryUpdate: both fields optional, null and the empty slug allowed.
UpdatePayloads ==
    {[name |-> f, slug |-> g] :
        f \in {NotGiven, Given(Absent)} \cup {Given(Some(n)) : n \in CatNames},
        g \in {NotGiven, Given(Absent), Given(Some(<< >>))}
                \cup {Given(Some(sl)) : sl \in CatSlugs}}

IdleCatReq == [op |-> "none", pc |-> "idle", id |-> 0,
               loaded |-> CategoryRow(0, << >>, << >>), name |-> << >>, slug |-> << >>]

\* A response: the request it answers (the category, the name and slug of
\* the session object, the row as it was loaded), its status code, and the
\* exception that escaped the handler, if one did.
CatResponse(r, code, e) ==
    [op |-> r.op, id |-> r.id, loaded |-> r.loaded, name |-> r.name, slug |-> r.slug,
     status |-> code, exc |-> e]

NoCatResponse == CatResponse(IdleCatReq, 0, None)

CatContinue(p, r) == cat_req' = [cat_req EXCEPT ![p] = r] /\ UNCHANGED cat_last

CatRespond(p, r, code) ==
    cat_req' = [cat_req EXCEPT ![p] = IdleCatReq] /\ cat_last' = CatResponse(r, code, None)

CatRaise(p, r, e) ==
    /\ cat_req' = [cat_req EXCEPT ![p] = IdleCatReq]
    /\ cat_last' = CatResponse(r, HTTP_500_INTERNAL, e)

CatCanStart(p) == cat_req[p].pc = "idle" /\ cat_started < MaxCatReqs

\* db.scalar(select(Category).where(Category.slug == slug)).
SlugExists(slug) == \E c \in categories : c.slug = slug

\* db.scalar(select(Category).where(Category.slug == new_slug,
\*                                  Category.id != category.id)).
SlugExistsElsewhere(slug, id) == \E c \in categories : c.slug = slug /\ c.id # id

\* slug is unique=True: the database refuses a second row with the slug
\* (IntegrityError at flush).
SlugUniqueViolation(slug, id) == \E c \in categories : c.slug = slug /\ c.id # id

\* create_category: request arrives; the slug is chosen and looked up.
CreateCategory_Check(p) ==
    /\ CatCanStart(p)
    /\ \E payload \in CreatePayloads :
         LET name == payload.name.value[1]
             slug == IF StrTruthy(payload.slug.value) THEN payload.slug.value[1]
                     ELSE Slugify(name)
             r == [IdleCatReq EXCEPT !.op = "create_category", !.pc = "commit",
                                     !.name = name, !.slug = slug] IN
         IF SlugExists(slug) THEN CatRespond(p, r, HTTP_409_CONFLICT) ELSE CatContinue(p, r)
    /\ cat_started' = cat_started + 1
    /\ UNCHANGED <<categories, cat_nextId>>

\* create_category: db.add(category); db.commit(); db.refresh(category).
CreateCategory_Commit(p) ==
    /\ cat_req[p].op = "create_category" /\ cat_req[p].pc = "commit"
    /\ IF SlugUniqueViolation(cat_req[p].slug, 0)
       THEN /\ CatRaise(p, cat_req[p], "IntegrityError")
            /\ UNCHANGED <<categories, cat_nextId>>
       ELSE /\ categories' = categories
                    \cup {CategoryRow(cat_nextId, cat_req[p].name, cat_req[p].slug)}
            /\ cat_nextId' = cat_nextId + 1
            /\ CatRespond(p, [cat_req[p] EXCEPT !.id = cat_nextId], HTTP_201_CREATED)
    /\ UNCHANGED cat_started

\* update_category: request arrives; db.get(Category, category_id), the name
\* is set on the session object and the new slug is determined.
UpdateCategory_Get(p) ==
    /\ CatCanStart(p)
    /\ \E id \in CatIds, data \in UpdatePayloads :
         LET category == GetById(categories, id) IN
         IF category = NoRow
         THEN CatRespond(p, [IdleCatReq EXCEPT !.op = "update_category", !.id = id],
                         HTTP_404_NOT_FOUND)
         ELSE LET name == IF data.name.given /\ data.name.value # Absent
                          THEN data.name.value[1] ELSE category.name
                  new_slug ==
                      IF data.slug.given
                      THEN IF StrTruthy(data.slug.value) THEN data.slug.value[1]
                           ELSE Slugify(name)
                      ELSE IF data.name.given /\ StrTruthy(data.name.value)
                      THEN Slugify(data.name.value[1])
                      ELSE category.slug IN
              CatContinue(p, [IdleCatReq EXCEPT
                                 !.op = "update_category",
                                 !.pc = IF new_slug # category.slug THEN "check" ELSE "commit",
                                 !.id = id, !.loaded = category,
                                 !.name = name, !.slug = new_slug])
    /\ cat_started' = cat_started + 1
    /\ UNCHANGED <<categories, cat_nextId>>

\* update_category: the new slug is looked up in the other categories.
UpdateCategory_Check(p) ==
    /\ cat_req[p].op = "update_category" /\ cat_req[p].pc = "check"
    /\ IF SlugExistsElsewhere(cat_req[p].slug, cat_req[p].id)
       THEN CatRespond(p, cat_req[p], HTTP_409_CONFLICT)
       ELSE CatContinue(p, [cat_req[p] EXCEPT !.pc = "commit"])
    /\ UNCHANGED <<categories, cat_started, cat_nextId>>

\* The attributes of the session object that differ from the loaded row:
\* the columns the UPDATE sets.
DirtyColumns(r) == {f \in {"name", "slug"} : r[f] # r.loaded[f]}

\* update_category: db.add(category); db.commit(); db.refresh(category).
UpdateCategory_Commit(p) ==
    LET r == cat_req[p]
        current == GetById(categories, r.id) IN
    /\ r.op = "update_category" /\ r.pc = "commit"
    /\ IF current = NoRow
       THEN \* the row was deleted meanwhile: the UPDATE matches no row, or
            \* with nothing to update the refresh finds none
            /\ CatRaise(p, r, IF DirtyColumns(r) = {} THEN "InvalidRequestError"
                                                     ELSE "StaleDataError")
            /\ UNCHANGED categories
       ELSE IF "slug" \in DirtyColumns(r) /\ SlugUniqueViolation(r.slug, r.id)
       THEN /\ CatRaise(p, r, "IntegrityError")
            /\ UNCHANGED categories
       ELSE /\ categories' = (categories \ {current})
                    \cup {[f \in DOMAIN current |->
                              IF f \in DirtyColumns(r) THEN r[f] ELSE current[f]]}
            /\ CatRespond(p, r, HTTP_200_OK)
    /\ UNCHANGED <<cat_started, cat_nextId>>

\* delete_category: request arrives; db.get(Category, category_id).
DeleteCategory_Get(p) ==
    /\ CatCanStart(p)
    /\ \E id \in CatIds :
         LET category == GetById(categories, id)
             r == [IdleCatReq EXCEPT !.op = "delete_category", !.pc = "delete", !.id = id] IN
         IF category = NoRow THEN CatRespond(p, r, HTTP_404_NOT_FOUND)
         ELSE CatContinue(p, [r EXCEPT !.loaded = category])
    /\ cat_started' = cat_started + 1
    /\ UNCHANGED <<categories, cat_nextId>>

\* delete_category: db.delete(category); db.commit().
DeleteCategory_Delete(p) ==
    /\ cat_req[p].op = "delete_category" /\ cat_req[p].pc = "delete"
    /\ categories' = {c \in categories : c.id # cat_req[p].id}
    /\ CatRespond(p, cat_req[p], HTTP_204_NO_CONTENT)
    /\ UNCHANGED <<cat_started, cat_nextId>>

\* ------------------------------------------------------------------ lists
\* The catalog the list endpoints read.  created_at is the value func.now()
\* stored at the INSERT; rows stored at the same time carry the same
\* value.  Two catalogs: one where every created_at and every category name
\* is different, one where books "b2" and "b3" were stored at the same time
\* and two categories have the same name.
BookRecord(id, title, author, description, price_cents, created_at) ==
    [id |-> id, title |-> title, author |-> author, description |-> description,
     price_cents |-> price_cents, created_at |-> created_at]

Link(b, c) == [book_id |-> b, category_id |-> c]

CatalogLinks ==
    {Link("b1", <<"c", "1">>), Link("b1", <<"c", "2">>), Link("b2", <<"c", "1">>)}

DistinctCatalog ==
    [books |-> {BookRecord("b1", <<"T", "a", "l", "e">>, <<"A", "n", "n">>, Absent, 100, 1),
                BookRecord("b2", <<"O", "d", "e">>, <<"B", "o">>, Some(<<"a", " ", "t", "a", "l", "e">>), 300, 2),
                BookRecord("b3", <<"O", "d", "e">>, <<"A", "n", "n">>, Absent, 300, 3)},
     categories |-> {CategoryRow(<<"c", "1">>, <<"A">>, <<"a">>),
                     CategoryRow(<<"c", "2">>, <<"B">>, <<"b">>),
                     CategoryRow(<<"c", "3">>, <<"C">>, <<"c">>)},
     links |-> CatalogLinks]

TiedCatalog ==
    [books |-> {BookRecord("b1", <<"T", "a", "l", "e">>, <<"A", "n", "n">>, Absent, 100, 1),
                BookRecord("b2", <<"O", "d", "e">>, <<"B", "o">>, Some(<<"a", " ", "t", "a", "l", "e">>), 300, 2),
                BookRecord("b3", <<"O", "d", "e">>, <<"A", "n", "n">>, Absent, 300, 2)},
     categories |-> {CategoryRow(<<"c", "1">>, <<"A">>, <<"a">>),
                     CategoryRow(<<"c", "2">>, <<"B">>, <<"b">>),
                     CategoryRow(<<"c", "3">>, <<"B">>, <<"b", "-", "2">>)},
     links |-> CatalogLinks]

Catalogs == {DistinctCatalog, TiedCatalog}

\* column ILIKE '%pattern%': a NULL column matches nothing.
Contains(text, pattern) ==
    \E i \in 0..(Len(text) - Len(pattern)) :
        \A k \in 1..Len(pattern) : Lower(text[i + k]) = Lower(pattern[k])
ILike(column, pattern) == column # Absent /\ Contains(column[1], pattern)

\* The query parameters of list_books, each Absent or Some(value).
BookFilters(q, author, category_id, category_slug, price_min, price_max) ==
    [q |-> q, author |-> author, category_id |-> category_id,
     category_slug |-> category_slug, price_min |-> price_min, price_max |-> price_max]

\* A select() statement: what it selects, how many times the categories are
\* joined to it, and the conditions of its WHERE clause.
Select(what) == [select |-> what, joins |-> 0, where |-> {}]
Join(stmt) == [stmt EXCEPT !.joins = @ + 1]

\* _apply_book_filters(base_stmt, ...) -> (stmt, used_join).
ApplyBookFilters(base_stmt, f) ==
    LET conditions ==
            {[on |-> "q", value |-> f.q[1]] : x \in {1} \cap {IF StrTruthy(f.q) THEN 1 ELSE 0}}
            \cup {[on |-> "author", value |-> f.author[1]] :
                      x \in {1} \cap {IF StrTruthy(f.author) THEN 1 ELSE 0}}
            \cup {[on |-> "price_min", cents |-> f.price_min[1]] :
                      x \in {1} \cap {IF f.price_min # Absent THEN 1 ELSE 0}}
            \cup {[on |-> "price_max", cents |-> f.price_max[1]] :
                      x \in {1} \cap {IF f.price_max # Absent THEN 1 ELSE 0}}
            \cup {[on |-> "category_id", value |-> f.category_id[1]] :
                      x \in {1} \cap {IF StrTruthy(f.category_id) THEN 1 ELSE 0}}
            \cup {[on |-> "category_slug", value |-> f.category_slug[1]] :
                      x \in {1} \cap {IF StrTruthy(f.category_slug) THEN 1 ELSE 0}}
        used_join == StrTruthy(f.category_id) \/ StrTruthy(f.category_slug)
        joined == IF used_join THEN Join(base_stmt) ELSE base_stmt IN
    [stmt |-> [joined EXCEPT !.where = @ \cup conditions], used_join |-> used_join]

\* A condition evaluated on a row of books, joined to a category or not.
Holds(cond, book, category) ==
    CASE cond.on = "q" -> \/ ILike(Some(book.title), cond.value)
                          \/ ILike(Some(book.author), cond.value)
                          \/ ILike(book.description, cond.value)
      [] cond.on = "author" -> ILike(Some(book.author), cond.value)
      [] cond.on = "price_min" -> book.price_cents >= cond.cents
      [] cond.on = "price_max" -> book.price_cents <= cond.cents
      [] cond.on = "category_id" -> category.id = cond.value
      [] cond.on = "category_slug" -> category.slug = cond.value

\* The database refuses a statement that names the table categories twice
\* without aliases.
StatementError_Never(stmt) == FALSE
StatementError(stmt) == stmt.joins > 1

\* The rows a statement selects from a catalog: books, or books joined to
\* their categories through book_categories.
SelectedRows(stmt, data) ==
    LET from == IF stmt.joins = 0
                THEN {[book |-> b, category |-> CategoryRow(<< >>, << >>, << >>)] : b \in data.books}
                ELSE {r \in [book : data.books, category : data.categories] :
                         Link(r.book.id, r.category.id) \in data.links} IN
    {r \in from : \A cond \in stmt.where : Holds(cond, r.book, r.category)}

\* The arrangements of a set of rows into a sequence.
Perms(rows) ==
    {o \in [1..Cardinality(rows) -> rows] : \A i, j \in DOMAIN o : i # j => o[i] # o[j]}

\* rows[offset : offset + limit] of a result.
Slice(o, offset, limit) ==
    SubSeq(o, offset + 1, IF offset + limit < Len(o) THEN offset + limit ELSE Len(o))

\* ORDER BY created_at DESC: every arrangement in which no row stands before
\* one created later; rows created at the same time come in an order the
\* database is free to choose at each execution.
NewestFirst(rows) ==
    {o \in Perms(rows) :
        \A i, j \in DOMAIN o : i < j => o[i].book.created_at >= o[j].book.created_at}

\* The collation of the category names.
LetterRank(c) == CASE c = "A" -> 1 [] c = "B" -> 2 [] c = "C" -> 3 [] OTHER -> 0

RECURSIVE NameLeq(_, _)
NameLeq(a, b) ==
    IF a = << >> THEN TRUE
    ELSE IF b = << >> THEN FALSE
    ELSE IF LetterRank(a[1]) # LetterRank(b[1]) THEN LetterRank(a[1]) < LetterRank(b[1])
    ELSE NameLeq(Tail(a), Tail(b))

\* ORDER BY name ASC, with the same freedom among equal names.
ByName(rows) ==
    {o \in Perms(rows) : \A i, j \in DOMAIN o : i < j => NameLeq(o[i].name, o[j].name)}

\* list_books(q, ..., page, page_size) on a catalog, with the order the
\* database returned the rows in: status, meta.total, the ids of the items,
\* and the count statement that was built.
ListBooks(f, page, page_size, data, order) ==
    LET p == SanitizePagination(Some(page), Some(page_size))
        base == ApplyBookFilters(Select("Book"), f)
        count_base == IF base.used_join THEN Join(Select("count(distinct Book.id)"))
                      ELSE Select("count(distinct Book.id)")
        count_stmt == ApplyBookFilters(count_base, f).stmt
        total == Cardinality({r.book.id : r \in SelectedRows(count_stmt, data)})
        window == OffsetLimit(Some(p[1]), Some(p[2]))
        items == Slice(order, window[1], window[2]) IN
    IF StatementError(count_stmt) \/ StatementError(base.stmt)
    THEN [status |-> HTTP_500_INTERNAL, total |-> 0, items |-> << >>,
          count_stmt |-> count_stmt, items_stmt |-> base.stmt]
    ELSE [status |-> HTTP_200_OK, total |-> PageMetaBuild(total, Some(p[1]), Some(p[2])).total,
          items |-> [i \in DOMAIN items |-> items[i].book.id],
          count_stmt |-> count_stmt, items_stmt |-> base.stmt]

\* list_categories(q = None, page, page_size): status, meta.total, item ids.
ListCategories(page, page_size, data, order) ==
    LET p == SanitizePagination(Some(page), Some(page_size))
        window == OffsetLimit(Some(p[1]), Some(p[2]))
        items == Slice(order, window[1], window[2]) IN
    [status |-> HTTP_200_OK,
     total |-> PageMetaBuild(Cardinality(data.categories), Some(p[1]), Some(p[2])).total,
     items |-> [i \in DOMAIN items |-> items[i].id]]

\* The requests to the list endpoints.
BookFilterInputs ==
    {BookFilters(q, author, category_id, category_slug, price_min, price_max) :
        q \in {Absent, Some(<<"t", "a", "l", "e">>)},
        author \in {Absent, Some(<<"a", "n">>)},
        category_id \in {Absent, Some(<<"c", "1">>), Some(<<"c", "9">>)},
        category_slug \in {Absent, Some(<<"a">>), Some(<<"b">>)},
        price_min \in {Absent, Some(0), Some(200)},
        price_max \in {Absent, Some(250)}}

ListPages == {1, 2}
ListPageSizes == {1, 2, 20}

ListBooksCalls ==
    {Pending("list_books", <<f, page, page_size, data>>) :
        f \in BookFilterInputs, page \in ListPages, page_size \in ListPageSizes,
        data \in Catalogs}

ListCategoriesCalls ==
    {Pending("list_categories", <<page, page_size, data>>) :
        page \in ListPages, page_size \in ListPageSizes, data \in Catalogs}

Call_ListBooks ==
    /\ call.fn = "list_books" /\ ~call.done
    /\ \E order \in NewestFirst(SelectedRows(ApplyBookFilters(Select("Book"), call.args[1]).stmt,
                                              call.args[4])) :
         Return(ListBooks(call.args[1], call.args[2], call.args[3], call.args[4], order))
    /\ UNCHANGED <<resourceVars, authVars, catVars, signinVars>>

Call_ListCategories ==
    /\ call.fn = "list_categories" /\ ~call.done
    /\ \E order \in ByName(call.args[3].categories) :
         Return(ListCategories(call.args[1], call.args[2], call.args[3], order))
    /\ UNCHANGED <<resourceVars, authVars, catVars, signinVars>>

\* ------------------------------------------------------------ delete_book
\* Whether the database acts on the foreign keys of the schema.  PostgreSQL
\* does.  SQLite, the database of the default database_url, does so only on a
\* connection that has run PRAGMA foreign_keys=ON, and _create_engine opens
\* its connections without it.
ForeignKeys == BOOLEAN

\* delete_book: request arrives; db.get(Book, book_id).  The four
\* collections of the book are lazy and are not loaded.
DeleteBook_Get(p) ==
    /\ CanStart(p)
    /\ \E b \in BookIds :
         LET r == NewReq("delete_book", "delete", None, b) IN
         IF b \in books THEN Continue(p, r) ELSE Respond(p, r, HTTP_404_NOT_FOUND)
    /\ started' = started + 1
    /\ UNCHANGED <<tables, nextId>>

\* The rows of a table that reference no deleted book.
Cascade(table, b) == {r \in table : r.book_id # b}

\* delete_book: db.delete(book); db.commit(); 204.  With passive_deletes the
\* session emits DELETE FROM books only and leaves the referencing rows to
\* ON DELETE CASCADE.
DeleteBook_Delete(p) ==
    /\ req[p].op = "delete_book" /\ req[p].pc = "delete"
    /\ books' = books \ {req[p].book}
    /\ \E enforced \in ForeignKeys :
         IF enforced /\ req[p].book \in books
         THEN /\ wishlists' = Cascade(wishlists, req[p].book)
              /\ purchases' = Cascade(purchases, req[p].book)
              /\ libraries' = Cascade(libraries, req[p].book)
              /\ reading_progress' = Cascade(reading_progress, req[p].book)
         ELSE UNCHANGED <<wishlists, purchases, libraries, reading_progress>>
    /\ Respond(p, req[p], HTTP_204_NO_CONTENT)
    /\ UNCHANGED <<nextId, started>>

\* The handler running as p is about to INSERT a row whose book is gone.
InsertOfMissingBook(p) ==
    /\ req[p].pc \in {"commit", "lib_commit"}
    /\ req[p].op = "upsert_progress" => req[p].created
    /\ req[p].book \notin books

\* ------------------------------------------------------------------ reads
\* The endpoints that read the rows of the principal.
ListOps == {"list_wishlist", "list_purchases", "list_library", "list_reading_progress"}
GetOps == {"get_wishlist_entry", "get_purchase", "get_library_entry"}
ReadOps == ListOps \cup GetOps \cup {"get_progress_for_book"}

ReadTable(op) ==
    CASE op \in {"list_wishlist", "get_wishlist_entry"} -> wishlists
      [] op \in {"list_purchases", "get_purchase"} -> purchases
      [] op \in {"list_library", "get_library_entry"} -> libraries
      [] OTHER -> reading_progress

\* What a read answers: the rows it returns, 404 when it is a get and finds
\* none.
ReadResponse(op, u, b, id, rows) ==
    [op |-> op, user |-> u, book |-> b, entry |-> id, created |-> FALSE,
     status |-> IF op \notin ListOps /\ rows = {} THEN HTTP_404_NOT_FOUND ELSE HTTP_200_OK,
     exc |-> None, items |-> rows]

\* WHERE user_id == current_user.id, the filter of every read.
OfUser_Any(table, u) == table
OfUser(table, u) == {r \in table : r.user_id = u}

\* list_wishlist, list_purchases, list_library, list_reading_progress.
ListOwn(p) ==
    /\ CanStart(p)
    /\ \E u \in Users, op \in ListOps :
         last' = ReadResponse(op, u, None, 0, OfUser(ReadTable(op), u))
    /\ started' = started + 1
    /\ UNCHANGED <<tables, nextId, req>>

\* get_wishlist_entry, get_purchase, get_library_entry: by id, and
\* get_progress_for_book: by book.
GetOwn(p) ==
    /\ CanStart(p)
    /\ \/ \E u \in Users, op \in GetOps, id \in 1..nextId :
            last' = ReadResponse(op, u, None, id, {r \in OfUser(ReadTable(op), u) : r.id = id})
       \/ \E u \in Users, b \in BookIds :
            last' = ReadResponse("get_progress_for_book", u, b, 0,
                                 {r \in OfUser(reading_progress, u) : r.book_id = b})
    /\ started' = started + 1
    /\ UNCHANGED <<tables, nextId, req>>

\* ------------------------------------------------------------------ spec
InitRest ==
    /\ started = 0
    /\ req = [p \in Procs |-> IdleReq]
    /\ last = NoResponse
    /\ users = InitialUsers
    /\ issued = {}
    /\ now = 0
    /\ auth = Outcome("none", NoHeader, 0)
    /\ redeemed = {}
    /\ categories = {}
    /\ cat_req = [p \in Procs |-> IdleCatReq]
    /\ cat_last = NoCatResponse
    /\ cat_started = 0
    /\ cat_nextId = 1
    /\ google_req = [p \in Procs |-> IdleSignIn]
    /\ google_started = 0

\* The tables of the resource handlers before the first request.
InitTables ==
    /\ books = {"b1"}
    /\ wishlists = {}
    /\ purchases = {}
    /\ libraries = {}
    /\ reading_progress = {}
    /\ nextId = 1

\* The tables after user "u1" bought book "b1" (create_purchase stored the
\* Purchase row and the Library row), put it on the wishlist and saved a
\* reading position.
OwnedTables ==
    /\ books = {"b1"}
    /\ purchases = {PurchaseRow(1, "u1", "b1")}
    /\ libraries = {LibraryRow(2, "u1", "b1", "purchase")}
    /\ wishlists = {WishlistRow(3, "u1", "b1")}
    /\ reading_progress = {ProgressRow(4, "u1", "b1", ProgressDefaults)}
    /\ nextId = 5

InitData == InitTables /\ InitRest

Init == InitData /\ call = NoCall

\* One statement of the handler running as p.
Step(p) ==
    \/ AddToWishlist_GetBook(p)
    \/ AddToWishlist_Check(p)
    \/ AddToWishlist_Commit(p)
    \/ RemoveFromWishlist_Get(p)
    \/ RemoveFromWishlist_Delete(p)
    \/ AddToLibrary_GetBook(p)
    \/ AddToLibrary_Check(p)
    \/ AddToLibrary_Commit(p)
    \/ RemoveFromLibrary_Get(p)
    \/ RemoveFromLibrary_Delete(p)
    \/ CreatePurchase_GetBook(p)
    \/ CreatePurchase_Check(p)
    \/ CreatePurchase_Commit(p)
    \/ CreatePurchase_LibCheck(p)
    \/ CreatePurchase_LibCommit(p)
    \/ Upsert_GetBook(p)
    \/ Upsert_Select(p)
    \/ Upsert_Commit(p)

\* Requests run concurrently: the statements of the handlers interleave.
Next == (\E p \in Procs : Step(p)) /\ UNCHANGED <<authVars, utilVars, catVars, signinVars>>

Spec == Init /\ [][Next]_vars

\* Requests issued in sequence: a handler runs to its response before the
\* next request is received.
NextSeq ==
    /\ \E p \in Procs : (\A q \in Procs \ {p} : req[q].pc = "idle") /\ Step(p)
    /\ UNCHANGED <<authVars, utilVars, catVars, signinVars>>

SpecSeq == Init /\ [][NextSeq]_vars

\* The resource handlers, started on the tables of a user who owns a book.
InitOwned == OwnedTables /\ InitRest /\ call = NoCall

SpecOwned == InitOwned /\ [][Next]_vars

\* The token checks: logins, refreshes and guarded calls while time passes.
NextAuth ==
    \/ Login
    \/ RefreshTokens
    \/ GetCurrentUser
    \/ StorageAuthRequired
    \/ PaymentsAuthRequired
    \/ AdminRequired
    \/ DeactivateUser
    \/ ClearSuperuser
    \/ DeleteUser
    \/ Tick

SpecAuth == Init /\ [][NextAuth]_vars

\* Google sign-ins, one after the other.
NextGoogle == GoogleSignIn

SpecGoogle == Init /\ [][NextGoogle]_vars

\* The utility functions, each applied to one of its inputs.
\* The category endpoints, their requests running concurrently.
CatStep(p) ==
    \/ CreateCategory_Check(p)
    \/ CreateCategory_Commit(p)
    \/ UpdateCategory_Get(p)
    \/ UpdateCategory_Check(p)
    \/ UpdateCategory_Commit(p)
    \/ DeleteCategory_Get(p)
    \/ DeleteCategory_Delete(p)

NextCat == (\E p \in Procs : CatStep(p)) /\ UNCHANGED <<resourceVars, authVars, utilVars, signinVars>>

SpecCat == Init /\ [][NextCat]_vars

\* Google sign-ins running concurrently.
NextSignIn == \E p \in Procs : GoogleSignIn_Lookup(p) \/ GoogleSignIn_Commit(p)

SpecSignIn == Init /\ [][NextSignIn]_vars

\* One statement of a handler while books are being deleted: an INSERT that
\* references a deleted book is refused by a database that enforces the
\* foreign key, and stored by one that does not.
CascadeStep(p) ==
    \/ ~InsertOfMissingBook(p) /\ Step(p)
    \/ /\ InsertOfMissingBook(p)
       /\ \E enforced \in ForeignKeys :
            IF enforced
            THEN Raise(p, req[p], "IntegrityError") /\ UNCHANGED <<tables, nextId, started>>
            ELSE Step(p)
    \/ DeleteBook_Get(p)
    \/ DeleteBook_Delete(p)

\* The resource handlers together with the reads, on the tables of a user
\* who owns a book.
NextPrincipal ==
    /\ \E p \in Procs : Step(p) \/ ListOwn(p) \/ GetOwn(p)
    /\ UNCHANGED <<authVars, utilVars, catVars, signinVars>>

SpecPrincipal == InitOwned /\ [][NextPrincipal]_vars

\* The resource handlers running while books are deleted.
NextCascade ==
    (\E p \in Procs : CascadeStep(p)) /\ UNCHANGED <<authVars, utilVars, catVars, signinVars>>

SpecCascade == InitOwned /\ [][NextCascade]_vars

\* The list endpoints, each call on one of the catalogs.
InitList == InitData /\ call \in ListBooksCalls \cup ListCategoriesCalls

NextList == Call_ListBooks \/ Call_ListCategories

SpecList == InitList /\ [][NextList]_vars

PendingCalls == SanitizeCalls \cup BuildCalls \cup SlugifyCalls \cup OffsetLimitCalls
                    \cup VerifyCalls \cup CreateTokenCalls

InitUtil == InitData /\ call \in PendingCalls

NextUtil ==
    \/ Call_SanitizePagination
    \/ Call_PageMetaBuild
    \/ Call_Slugify
    \/ Call_OffsetLimit
    \/ Call_VerifyPassword
    \/ Call_CreateAccessToken
    \/ Call_CreateRefreshToken

SpecUtil == InitUtil /\ [][NextUtil]_vars

\* ---------------------------------------------------------------- claims
\* In this step handler p sends its response (which is then last').
Replies(p) == req[p].pc # "idle" /\ req'[p].pc = "idle"

\* In this step a request arrives and is answered by its first statement.
AnsweredOnArrival == started' = started + 1 /\ req' = req

UserTables == {wishlists, purchases, libraries, reading_progress}

\* C1: in every reachable state each of the Wishlist, Purchase, Library and
\* ReadingProgress tables holds at most one row per (user, book) pair.
C1_OneRowPerUserBook ==
    \A t \in UserTables : \A r1, r2 \in t :
        (r1.user_id = r2.user_id /\ r1.book_id = r2.book_id) => r1 = r2

\* C1 witness: a second insert for a pair was attempted and refused while the
\* first row is in the table.
C1_Witness ==
    /\ last.op = "add_to_wishlist" /\ last.exc = "IntegrityError"
    /\ RowsFor(wishlists, last.user, last.book) # {}

\* C2 (as claimed): of two add_to_wishlist calls that both passed the
\* pre-check for the same (U,B), the one that commits first succeeds with 201
\* and leaves exactly one row; the one that commits when the row is already
\* there receives 409 and leaves the table unchanged.
C2_Claim ==
    [][\A p \in Procs :
         (req[p].op = "add_to_wishlist" /\ req[p].pc = "commit" /\ Replies(p)) =>
            IF RowsFor(wishlists, req[p].user, req[p].book) # {}
            THEN last'.status = HTTP_409_CONFLICT /\ wishlists' = wishlists
            ELSE /\ last'.status = HTTP_201_CREATED
                 /\ Cardinality(RowsFor(wishlists', req[p].user, req[p].book)) = 1]_vars

\* C3 (as claimed): of the create_purchase calls that passed the pre-check for
\* the same (U,B), the one that commits first inserts the only Purchase row;
\* every other one receives 409 and leaves the table unchanged; a call that
\* returns 201 leaves exactly one Purchase and one Library row for (U,B).
C3_Claim ==
    [][\A p \in Procs :
         /\ (req[p].op = "create_purchase" /\ req[p].pc = "commit" /\ req'[p] # req[p]) =>
               IF RowsFor(purchases, req[p].user, req[p].book) # {}
               THEN Replies(p) /\ last'.status = HTTP_409_CONFLICT /\ purchases' = purchases
               ELSE Cardinality(RowsFor(purchases', req[p].user, req[p].book)) = 1
         /\ (req[p].op = "create_purchase" /\ Replies(p) /\ last'.status = HTTP_201_CREATED) =>
               /\ Cardinality(RowsFor(purchases', req[p].user, req[p].book)) = 1
               /\ Cardinality(RowsFor(libraries', req[p].user, req[p].book)) = 1]_vars

\* C4 (as claimed): of two upsert_progress_for_book calls that both found no
\* row for (U,B), the one that commits first creates the row (201); the one
\* that commits when the row is already there receives a conflict failure and
\* the table keeps exactly that one row.
C4_Claim ==
    [][\A p \in Procs :
         (req[p].op = "upsert_progress" /\ req[p].pc = "commit" /\ req[p].created
            /\ Replies(p)) =>
            IF RowsFor(reading_progress, req[p].user, req[p].book) # {}
            THEN last'.status = HTTP_409_CONFLICT /\ reading_progress' = reading_progress
            ELSE /\ last'.status = HTTP_201_CREATED
                 /\ Cardinality(RowsFor(reading_progress', req[p].user, req[p].book)) = 1]_vars

\* C5 (as claimed): when a create_purchase call returns 201, a Library row
\* for (U,B) with source "purchase" exists.
C5_Claim ==
    [][\A p \in Procs :
         (req[p].op = "create_purchase" /\ Replies(p) /\ last'.status = HTTP_201_CREATED) =>
            \E r \in RowsFor(libraries', req[p].user, req[p].book) : r.source = "purchase"]_vars

\* C5 (amended): with requests issued in sequence, a create_purchase call for
\* an existing book and a pair without Purchase row returns 201, and then a
\* Purchase row and a Library row for (U,B) exist; the Library row has source
\* "purchase" when no Library row existed before, and is the unchanged earlier
\* row otherwise.  A create_purchase call for a pair that has a Purchase row
\* fails with 409 and changes no table.
C5_PurchaseThenLibrary ==
    [][\A p \in Procs :
         /\ (req[p].op = "create_purchase" /\ Replies(p)) =>
               /\ last'.status \in {HTTP_201_CREATED, HTTP_409_CONFLICT}
               /\ last'.status = HTTP_409_CONFLICT =>
                     /\ RowsFor(purchases, req[p].user, req[p].book) # {}
                     /\ tables' = tables
               /\ last'.status = HTTP_201_CREATED =>
                     /\ RowsFor(purchases', req[p].user, req[p].book) # {}
                     /\ RowsFor(libraries', req[p].user, req[p].book) # {}
                     /\ IF RowsFor(libraries, req[p].user, req[p].book) = {}
                        THEN \A r \in RowsFor(libraries', req[p].user, req[p].book) :
                                r.source = "purchase"
                        ELSE libraries' = libraries
         /\ (req[p].op = "create_purchase" /\ req[p].pc = "check" /\ req'[p] # req[p]
               /\ RowsFor(purchases, req[p].user, req[p].book) # {}) =>
               Replies(p) /\ last'.status = HTTP_409_CONFLICT /\ tables' = tables]_vars

\* C5 witness: a create_purchase call was refused with 409 while the Purchase
\* row and a Library row with source "purchase" of an earlier call exist.
C5_Witness ==
    /\ last.op = "create_purchase" /\ last.status = HTTP_409_CONFLICT
    /\ RowsFor(purchases, last.user, last.book) # {}
    /\ \E r \in RowsFor(libraries, last.user, last.book) : r.source = "purchase"

\* C6 (as claimed): when create_purchase ends having committed its Purchase
\* row, it reports success and a Library row for (U,B) exists.
C6_Claim ==
    [][\A p \in Procs :
         (req[p].op = "create_purchase" /\ Replies(p)
            /\ GetById(purchases', req[p].entry) # NoRow) =>
            /\ last'.status = HTTP_201_CREATED
            /\ RowsFor(libraries', req[p].user, req[p].book) # {}]_vars

\* The row of (u, b) in a table that holds one.
TheRow(table, u, b) == CHOOSE r \in RowsFor(table, u, b) : TRUE

\* C7 (as claimed): an upsert_progress_for_book call for an existing book
\* reports 201 exactly when no row for (U,B) existed and 200 otherwise;
\* afterwards every supplied field holds the supplied value and every other
\* field its previous value, or its default in a created row.
C7_Claim ==
    [][\A p \in Procs :
         (req[p].op = "upsert_progress" /\ req[p].pc = "commit" /\ Replies(p)) =>
            LET u == req[p].user
                b == req[p].book
                existed == RowsFor(reading_progress, u, b) # {}
                before == IF existed THEN LoadedValues(TheRow(reading_progress, u, b))
                          ELSE ProgressDefaults
            IN  /\ last'.status = IF existed THEN HTTP_200_OK ELSE HTTP_201_CREATED
                /\ RowsFor(reading_progress', u, b) # {}
                /\ \A f \in ProgressFields :
                      TheRow(reading_progress', u, b)[f] =
                         IF req[p].payload[f] # Unset THEN req[p].payload[f]
                         ELSE before[f]]_vars

\* The table an add or remove operation works on.
TableOf(op) == IF op \in {"add_to_wishlist", "remove_from_wishlist"}
               THEN wishlists ELSE libraries

AddOps == {"add_to_wishlist", "add_to_library"}
RemoveOps == {"remove_from_wishlist", "remove_from_library"}

\* C8: add_to_wishlist and add_to_library answer 404 exactly when the book id
\* does not exist, and 409 when the pre-check finds a row for (principal,
\* book); in both cases no table changes.
C8_AddErrors ==
    [][/\ (AnsweredOnArrival /\ last'.op \in AddOps) =>
             last'.book \notin books /\ last'.status = HTTP_404_NOT_FOUND /\ tables' = tables
       /\ \A p \in Procs :
             /\ (req[p].pc = "idle" /\ req'[p].op \in AddOps) => req'[p].book \in books
             /\ (req[p].op \in AddOps /\ req[p].pc = "check" /\ req'[p] # req[p]) =>
                   IF RowsFor(TableOf(req[p].op), req[p].user, req[p].book) # {}
                   THEN Replies(p) /\ last'.status = HTTP_409_CONFLICT /\ tables' = tables
                   ELSE ~Replies(p)
             /\ (req[p].op \in AddOps /\ Replies(p)
                   /\ last'.status \in {HTTP_404_NOT_FOUND, HTTP_409_CONFLICT}) =>
                   tables' = tables]_vars

\* C8 witness: an add was refused with 409 for a pair whose row is in the table.
C8_Witness ==
    /\ last.op = "add_to_library" /\ last.status = HTTP_409_CONFLICT
    /\ RowsFor(libraries, last.user, last.book) # {}

\* C9: remove_from_wishlist and remove_from_library answer 404, and change no
\* table, for an entry id that does not exist and for one owned by another
\* user alike; they go on to delete only an entry owned by the principal, and
\* the delete removes no row but that entry and answers 204.
C9_RemoveOwnership ==
    [][/\ (AnsweredOnArrival /\ last'.op \in RemoveOps) =>
             /\ ~OwnedBy_Anyone(GetById(TableOf(last'.op), last'.entry), last'.user)
                \/ GetById(TableOf(last'.op), last'.entry).user_id # last'.user
             /\ last'.status = HTTP_404_NOT_FOUND
             /\ tables' = tables
       /\ \A p \in Procs :
             /\ (req[p].pc = "idle" /\ req'[p].op \in RemoveOps) =>
                   /\ GetById(TableOf(req'[p].op), req'[p].entry) # NoRow
                   /\ GetById(TableOf(req'[p].op), req'[p].entry).user_id = req'[p].user
             /\ (req[p].op \in RemoveOps /\ Replies(p)) =>
                   /\ last'.status = HTTP_204_NO_CONTENT
                   /\ \A t \in UserTables : \A r \in t :
                         (r \notin wishlists' \cup purchases' \cup libraries' \cup reading_progress')
                            => r.id = req[p].entry /\ r.user_id = req[p].user]_vars

\* C9 witness: a remove was answered 404 for an entry that exists and is owned
\* by another user, and the entry is still in the table.
C9_Witness ==
    /\ last.op = "remove_from_wishlist" /\ last.status = HTTP_404_NOT_FOUND
    /\ GetById(wishlists, last.entry) # NoRow
    /\ GetById(wishlists, last.entry).user_id # last.user

\* The checks that demand an access token.
AccessChecks == {"get_current_user", "storage", "payments", "admin"}

IssuedAs(kind) == {i.token : i \in {j \in issued : j.kind = kind}}

\* C10: a token minted as a refresh token is rejected (401) by every check
\* that demands an access token (get_current_user, the storage and payments
\* guards, the admin guard), and a token minted as an access token is
\* rejected (401) by /auth/refresh.
C10_KindSeparated ==
    /\ (auth.endpoint \in AccessChecks /\ auth.header.scheme = "Bearer"
            /\ auth.header.token \in IssuedAs("refresh"))
        => auth.status = HTTP_401_UNAUTHORIZED
    /\ (auth.endpoint = "refresh" /\ auth.header.token \in IssuedAs("access"))
        => auth.status = HTTP_401_UNAUTHORIZED

\* An unexpired refresh token of the active admin, presented to the admin
\* guard and turned away: the rejection rests on the kind alone.
C10_Witness ==
    /\ auth.endpoint = "admin"
    /\ auth.header.scheme = "Bearer"
    /\ auth.header.token \in IssuedAs("refresh")
    /\ ~JwtError(auth.header.token)
    /\ UserById(auth.header.token.payload["sub"]).is_superuser
    /\ auth.status = HTTP_401_UNAUTHORIZED

Expiry(t) == t.payload["exp"]

\* decode_token followed by the kind check succeeds for token t.
AcceptedAs(t, kind) == GetTokenPayload(t, kind).ok

\* C11: every issued access token expires at its issue time plus the
\* configured access lifetime; decode_token followed by the kind check for
\* "access" succeeds at every time before the expiry and fails at every time
\* after it.
C11_ValidUntilExpiry ==
    \A t \in IssuedAs("access") :
        /\ Expiry(t) = t.payload["iat"] + AccessTokenExpireMinutes
        /\ now < Expiry(t) => AcceptedAs(t, "access")
        /\ now > Expiry(t) => ~AcceptedAs(t, "access")

\* C11: an issued access token that is rejected is never accepted again
\* (Issued -> Valid -> Expired and no other transition), and the guards answer
\* accordingly.
C11_TokenLife ==
    /\ []C11_ValidUntilExpiry
    /\ [][/\ \A t \in IssuedAs("access") :
                ~AcceptedAs(t, "access") => ~AcceptedAs(t, "access")'
          /\ \A ep \in {"storage", "payments"} :
                (AuthRequired(ep) /\ auth'.header.scheme = "Bearer"
                    /\ auth'.header.token \in IssuedAs("access")) =>
                   auth'.status = IF now > Expiry(auth'.header.token)
                                  THEN HTTP_401_UNAUTHORIZED ELSE HTTP_200_OK]_vars

\* An issued access token presented to the storage guard after its expiry and
\* turned away, while the clock has passed the expiry.
C11_Witness ==
    /\ auth.endpoint = "storage"
    /\ auth.header.scheme = "Bearer"
    /\ auth.header.token \in IssuedAs("access")
    /\ now > Expiry(auth.header.token)
    /\ auth.status = HTTP_401_UNAUTHORIZED

\* The users table holds a row with this id that is active / a superuser.
IsActive(id) == \E u \in users : u.id = id /\ u.is_active
IsSuperuser(id) == \E u \in users : u.id = id /\ u.is_superuser
RowOf(id) == CHOOSE u \in users : u.id = id

\* The rows Mint adds for a user.
PairRows(user) ==
    {[token |-> CreateTokenPairForUser(user)[1], kind |-> "access"],
     [token |-> CreateTokenPairForUser(user)[2], kind |-> "refresh"]}

\* C12: there is no revocation: a /auth/refresh call with an issued refresh
\* token that has not expired, of a user that is active, succeeds, whether or
\* not the token was used before; it issues a pair minted at the time of the
\* call and withdraws no token issued earlier.
C12_NoRevocation ==
    [][RefreshTokens =>
         LET t == auth'.header.token IN
         (t \in IssuedAs("refresh") /\ now <= Expiry(t) /\ IsActive(t.payload["sub"])) =>
            /\ auth'.status = HTTP_200_OK
            /\ issued' = issued \cup PairRows(RowOf(t.payload["sub"]))
            /\ \A r \in PairRows(RowOf(t.payload["sub"])) :
                  r.token.payload["iat"] = now /\ r.token.payload["sub"] = t.payload["sub"]]_vars

\* One refresh token accepted by /auth/refresh at two different times, the
\* later use being the most recent call.
C12_Witness ==
    /\ auth.endpoint = "refresh" /\ auth.status = HTTP_200_OK
    /\ \E e1, e2 \in redeemed :
          /\ e1.token = auth.header.token /\ e2.token = auth.header.token
          /\ e1.at < e2.at /\ e2.at = now

\* Token t is an unexpired access token the server issued.
LiveAccess(t) == t \in IssuedAs("access") /\ now <= Expiry(t)

\* C13: the flags are read from the users table at every call: a
\* get_current_user call with an unexpired issued access token whose user
\* row is deleted or deactivated fails (401), and an admin call with an
\* unexpired issued access token whose user row is deleted or has no
\* is_superuser flag fails with 403.
C13_FlagsReRead ==
    [][/\ (GetCurrentUser /\ auth'.header.scheme = "Bearer"
              /\ LiveAccess(auth'.header.token)) =>
             auth'.status = IF IsActive(auth'.header.token.payload["sub"])
                            THEN HTTP_200_OK ELSE HTTP_401_UNAUTHORIZED
       /\ (AdminRequired /\ auth'.header.scheme = "Bearer"
              /\ LiveAccess(auth'.header.token)) =>
             auth'.status = IF IsSuperuser(auth'.header.token.payload["sub"])
                            THEN HTTP_200_OK ELSE HTTP_403_FORBIDDEN]_vars

\* An unexpired access token issued to the admin while the flag was set,
\* turned away with 403 by the admin guard after the flag was cleared.
C13_Witness ==
    /\ auth.endpoint = "admin" /\ auth.status = HTTP_403_FORBIDDEN
    /\ auth.header.scheme = "Bearer"
    /\ LiveAccess(auth.header.token)
    /\ \E u \in InitialUsers : u.id = auth.header.token.payload["sub"] /\ u.is_superuser
    /\ \E u \in users : u.id = auth.header.token.payload["sub"]
    /\ ~IsSuperuser(auth.header.token.payload["sub"])

\* The guards of the authenticated endpoints: get_current_user (wishlist,
\* library, purchases, reading), storage presign, payment init, admin stats.
GuardStep ==
    GetCurrentUser \/ StorageAuthRequired \/ PaymentsAuthRequired \/ AdminRequired

\* C14 (as claimed): every guard answers 401 to a request without bearer
\* token, with an invalid, expired or refresh token, or with a token whose
\* user is missing or deactivated, and answers 403 only to a valid active
\* user that lacks the admin flag.
C14_Claim ==
    [][GuardStep =>
         LET h == auth'.header
             unauthenticated ==
                 \/ h.scheme # "Bearer"
                 \/ ~AcceptedAs(h.token, "access")
                 \/ ~IsActive(h.token.payload["sub"]) IN
         /\ unauthenticated => auth'.status = HTTP_401_UNAUTHORIZED
         /\ auth'.status = HTTP_403_FORBIDDEN =>
               /\ ~unauthenticated /\ auth'.endpoint = "admin"
               /\ ~IsSuperuser(h.token.payload["sub"])]_vars

\* The fields of a user row that a Google sign-in must leave alone.
SameAccount(r, u) ==
    /\ r.id = u.id /\ r.email = u.email /\ r.hashed_password = u.hashed_password
    /\ r.is_active = u.is_active /\ r.is_superuser = u.is_superuser

\* C15: a Google sign-in that succeeds returns a user whose email is the
\* claimed email.  If a row with that email existed, that row is returned, no
\* row is created, no other row changes, and of the row at most full_name and
\* avatar_url change, each only to the value the provider supplied.  If none
\* existed, exactly one row is created, with a new id, is_active = true,
\* is_superuser = false, the hash of a random password and the supplied name
\* and avatar.
C15_GetOrCreate ==
    [][(GoogleSignIn /\ auth'.status = HTTP_200_OK) =>
         LET c == auth'.header.assertion.claims
             r == auth'.user
             old == {u \in users : u.email = c.email} IN
         /\ r.email = c.email
         /\ r \in users'
         /\ IF old # {}
            THEN \E u \in old :
                    /\ users' \ {r} = users \ {u}
                    /\ SameAccount(r, u)
                    /\ r.full_name \in {u.full_name, c.name}
                    /\ r.avatar_url \in {u.avatar_url, c.picture}
            ELSE /\ users' = users \cup {r}
                 /\ \A u \in users : u.id # r.id
                 /\ r.is_active /\ ~r.is_superuser
                 /\ \E pw \in RandomPasswords : r.hashed_password = GetPasswordHash(pw)
                 /\ r.full_name = c.name /\ r.avatar_url = c.picture]_vars

\* A sign-in for the existing account "u1" that stored the name the provider
\* supplied, while the table also holds an account that a sign-in created.
C15_Witness ==
    /\ auth.endpoint = "google" /\ auth.status = HTTP_200_OK
    /\ auth.user.id = "u1" /\ auth.user.full_name = "Bob"
    /\ auth.header.assertion.claims.name = "Bob"
    /\ \E u \in users : u.id \in UserIdPool /\ u.email = "g1"

\* C16: a Google sign-in whose assertion fails verification, does not assert
\* a verified email, or carries no email fails with 400, leaves the users
\* table unchanged and issues no token.
C16_RejectedAssertion ==
    [][GoogleSignIn =>
         LET a == auth'.header.assertion IN
         (~a.valid \/ a.claims.email_verified # "True" \/ a.claims.email \in {None, ""}) =>
            /\ auth'.status = HTTP_400_BAD_REQUEST
            /\ users' = users
            /\ issued' = issued]_vars

\* A verified assertion without email claim, refused.
C16_Witness ==
    /\ auth.endpoint = "google" /\ auth.status = HTTP_400_BAD_REQUEST
    /\ auth.header.assertion.valid
    /\ auth.header.assertion.claims.email_verified = "True"
    /\ auth.header.assertion.claims.email = None

Returned(fn) == call.fn = fn /\ call.done

\* C17: for every (page, page_size), absent, zero and negative values
\* included, sanitize_pagination returns (p, s) with p >= 1 and 1 <= s <= 100,
\* p = max(1, page), s = 20 when page_size is absent or not positive and
\* s = min(page_size, 100) otherwise; (0, 0) gives (1, 20) and (3, 500) gives
\* (3, 100).
C17_Sanitize ==
    Returned("sanitize_pagination") =>
        LET page == call.args[1]
            page_size == call.args[2]
            p == call.result[1]
            s == call.result[2] IN
        /\ p >= 1 /\ 1 <= s /\ s <= 100
        /\ p = IF page = Absent \/ page[1] < 1 THEN 1 ELSE page[1]
        /\ s = IF page_size = Absent \/ page_size[1] <= 0 THEN 20
               ELSE IF page_size[1] > 100 THEN 100 ELSE page_size[1]
        /\ (page = Some(0) /\ page_size = Some(0)) => call.result = <<1, 20>>
        /\ (page = Some(3) /\ page_size = Some(500)) => call.result = <<3, 100>>

C17_Witness ==
    /\ Returned("sanitize_pagination")
    /\ call.args = <<Some(3), Some(500)>>
    /\ call.result = <<3, 100>>

\* C18: for every total >= 0 and every page_size in 1..100, PageMeta.build
\* returns total_pages = max(1, ceil(total / page_size)): the least n >= 1
\* with n * page_size >= total; total = 0 gives 1, and total = 21 with
\* page_size = 20 gives 2.
C18_TotalPages ==
    (Returned("PageMeta.build") /\ call.args[3] # Absent
        /\ call.args[3][1] >= 1 /\ call.args[3][1] <= 100) =>
        LET total == call.args[1]
            page_size == call.args[3][1]
            n == call.result.total_pages IN
        /\ n >= 1
        /\ n * page_size >= total
        /\ n > 1 => (n - 1) * page_size < total
        /\ total = 0 => n = 1
        /\ (total = 21 /\ page_size = 20) => n = 2

C18_Witness ==
    /\ Returned("PageMeta.build")
    /\ call.args[1] = 21 /\ call.args[3] = Some(20)
    /\ call.result.total_pages = 2

IsSlugChar(c) == c \in SlugChars

\* The indices of the letters and digits of a string, in order.
RECURSIVE AlnumIndices(_, _)
AlnumIndices(value, i) ==
    IF i > Len(value) THEN << >>
    ELSE IF IsSlugChar(value[i]) THEN <<i>> \o AlnumIndices(value, i + 1)
    ELSE AlnumIndices(value, i + 1)

\* C19: the slug derived from a name is the lowercased name with each run of
\* characters other than a-z, 0-9 replaced by one hyphen and the hyphens at
\* both ends removed, or the default "category" when nothing remains: it is
\* never empty, consists of a-z, 0-9 and '-', has no leading, trailing or
\* doubled hyphen, keeps the letters and digits of the lowercased name in
\* order with a hyphen exactly between those that were not adjacent, and is
\* its own slug; "Sci-Fi & Fantasy!!" gives "sci-fi-fantasy".
C19_Slug ==
    Returned("_slugify") =>
        LET name == LowerStr(call.args[1])
            slug == call.result
            from == AlnumIndices(name, 1)
            to == AlnumIndices(slug, 1) IN
        /\ slug # << >>
        /\ \A i \in 1..Len(slug) : slug[i] \in SlugChars \cup {"-"}
        /\ slug[1] # "-" /\ slug[Len(slug)] # "-"
        /\ \A i \in 1..(Len(slug) - 1) : ~(slug[i] = "-" /\ slug[i + 1] = "-")
        /\ Slugify(slug) = slug
        /\ IF from = << >> THEN slug = DefaultSlug
           ELSE /\ Len(to) = Len(from)
                /\ \A k \in 1..Len(from) : slug[to[k]] = name[from[k]]
                /\ \A k \in 1..(Len(from) - 1) :
                      to[k + 1] = to[k] + (IF from[k + 1] = from[k] + 1 THEN 1 ELSE 2)
        /\ call.args[1] = SciFiAndFantasy =>
              slug = <<"s", "c", "i", "-", "f", "i", "-", "f", "a", "n", "t", "a", "s", "y">>

C19_Witness ==
    /\ Returned("_slugify")
    /\ call.args[1] = SciFiAndFantasy
    /\ call.result = <<"s", "c", "i", "-", "f", "i", "-", "f", "a", "n", "t", "a", "s", "y">>

\* In this step a category endpoint answers: cat_last' is its response.
CatAnswers ==
    \/ \E p \in Procs : cat_req[p].pc # "idle" /\ cat_req'[p].pc = "idle"
    \/ cat_started' = cat_started + 1 /\ cat_req' = cat_req

\* The response is to a create or an update that gives its category a slug
\* another stored category has.
AsksUsedSlug(resp) ==
    /\ resp.op \in {"create_category", "update_category"}
    /\ resp.status # HTTP_404_NOT_FOUND
    /\ resp.slug # resp.loaded.slug
    /\ \E c \in categories : c.slug = resp.slug /\ c.id # resp.id

UniqueSlugs == \A c1, c2 \in categories : c1.slug = c2.slug => c1 = c2

\* C20: no two stored categories share a slug; a create or update asking for
\* a slug another category has is answered 409 and leaves every stored
\* category unchanged, also when two requests run concurrently; an update
\* that keeps the category's own slug is never answered 409.
C20_Claim ==
    /\ []UniqueSlugs
    /\ [][CatAnswers =>
            /\ AsksUsedSlug(cat_last') =>
                  cat_last'.status = HTTP_409_CONFLICT /\ categories' = categories
            /\ (cat_last'.op = "update_category" /\ cat_last'.slug = cat_last'.loaded.slug) =>
                  cat_last'.status # HTTP_409_CONFLICT]_vars

\* The row indices of the window [offset, offset + limit) of a page.
Window(page, page_size) ==
    LET w == OffsetLimit(Some(page), Some(page_size)) IN w[1]..(w[1] + w[2] - 1)

\* C30: for page >= 1 and page_size in 1..100 offset_limit returns
\* ((page - 1) * page_size, page_size); for every total the windows of the
\* pages 1..total_pages of PageMeta.build are pairwise disjoint, every row
\* index 0..total-1 lies in exactly one of them, and when total > 0 the last
\* page holds a row and the page after it none.
C30_Windows ==
    (Returned("offset_limit") /\ call.args[1][1] >= 1
        /\ call.args[2][1] >= 1 /\ call.args[2][1] <= 100) =>
        LET page == call.args[1][1]
            page_size == call.args[2][1] IN
        /\ call.result = <<(page - 1) * page_size, page_size>>
        /\ \A total \in TotalInputs :
              LET total_pages == PageMetaBuild(total, Some(1), Some(page_size)).total_pages
                  rows == 0..(total - 1) IN
              /\ \A p1, p2 \in 1..total_pages :
                    p1 # p2 => Window(p1, page_size) \cap Window(p2, page_size) = {}
              /\ \A i \in rows :
                    Cardinality({p \in 1..total_pages : i \in Window(p, page_size)}) = 1
              /\ total > 0 =>
                    /\ Window(total_pages, page_size) \cap rows # {}
                    /\ Window(total_pages + 1, page_size) \cap rows = {}

C30_Witness ==
    /\ Returned("offset_limit")
    /\ call.args = <<Some(3), Some(20)>>
    /\ call.result = <<40, 20>>

\* C23: verify_password returns a truth value for every input; against a
\* hash get_password_hash made of p it is true for p and false for every
\* password different from p; against a malformed hash it is false.
C23_Claim ==
    Returned("verify_password") =>
        LET q == call.args[1]
            hashed == call.args[2] IN
        /\ call.result \in BOOLEAN
        /\ \A p \in Passwords, s \in Salts :
              hashed = PwdContextHash(p, s) => (call.result <=> (q = p))
        /\ hashed \in MalformedHashes => call.result = FALSE

\* The claims a minted token decodes to, and the kind and lifetime its
\* function stands for.
Minted(fn) == Returned(fn) /\ ~JwtError(call.result)

DecodesTo(subject, type, lifetime) ==
    LET claims == call.result.payload IN
    /\ Get(claims, "sub") = subject
    /\ Get(claims, "type") = type
    /\ Get(claims, "iat") = now
    /\ Get(claims, "exp") = Get(claims, "iat") + lifetime

\* C25: a token of create_access_token(subject, extra_claims) decodes to
\* sub = subject, type = "access", exp = iat + the access lifetime, and one
\* of create_refresh_token to type = "refresh" with the refresh lifetime,
\* whatever extra_claims holds.
C25_Claim ==
    /\ Minted("create_access_token") =>
          DecodesTo(call.args[1], "access", AccessTokenExpireMinutes)
    /\ Minted("create_refresh_token") =>
          DecodesTo(call.args[1], "refresh", RefreshTokenExpireMinutes)

\* C26: a token pair is issued only for a user whose is_active flag is true
\* when it is issued: every token a step of /auth/login, /auth/refresh or
\* /auth/google (the only steps that issue tokens) adds to the issued ones
\* names a user whose row is active.
C26_Claim ==
    [][\A r \in issued' \ issued :
          \E u \in users' : u.id = r.token.payload["sub"] /\ u.is_active]_vars

\* C28: remove_from_library deletes the targeted Library row and nothing
\* else: the Purchase, Wishlist and ReadingProgress rows of the pair stay as
\* they are.  So the Purchase row of a bought book outlives the removal, and
\* a further create_purchase for the pair is refused with 409 and stores no
\* Library row.
C28_RemoveFrame ==
    /\ [](PurchaseRow(1, "u1", "b1") \in purchases)
    /\ [][\A p \in Procs :
            /\ (req[p].op = "remove_from_library" /\ req[p].pc = "delete" /\ Replies(p)) =>
                  /\ libraries' = libraries \ {GetById(libraries, req[p].entry)}
                  /\ purchases' = purchases
                  /\ wishlists' = wishlists
                  /\ reading_progress' = reading_progress
                  /\ books' = books
            /\ (req[p].op = "create_purchase" /\ req[p].pc = "check" /\ req'[p] # req[p]
                  /\ RowsFor(purchases, req[p].user, req[p].book) # {}) =>
                  Replies(p) /\ last'.status = HTTP_409_CONFLICT /\ tables' = tables]_vars

\* C28 witness: the Library row of the bought book was removed, the other
\* rows of the pair are still stored, and a new create_purchase for the pair
\* was refused with 409 without a Library row being stored.
C28_Witness ==
    /\ last.op = "create_purchase" /\ last.status = HTTP_409_CONFLICT
    /\ last.user = "u1" /\ last.book = "b1"
    /\ RowsFor(libraries, "u1", "b1") = {}
    /\ RowsFor(purchases, "u1", "b1") # {}
    /\ RowsFor(wishlists, "u1", "b1") # {}
    /\ RowsFor(reading_progress, "u1", "b1") # {}

\* The rows of the users table with an email.
RowsWithEmail(table, email) == {u \in table : u.email = email}

\* C29: at most one User row exists per email; a Google sign-in that found
\* no row for its email leaves exactly one row with that email when it
\* finishes, whether it stored the row itself or a concurrent sign-in did, so
\* two concurrent sign-ins for an unknown email create one row between them.
C29_OneRowPerEmail ==
    /\ [](\A u1, u2 \in users : u1.email = u2.email => u1 = u2)
    /\ [][\A p \in Procs :
            (google_req[p].pc = "commit" /\ google_req'[p].pc = "idle"
                /\ google_req[p].found = NoRow) =>
               LET email == ExtractProfile(google_req[p].assertion.claims).email IN
               /\ Cardinality(RowsWithEmail(users', email)) = 1
               /\ RowsWithEmail(users, email) # {} => users' = users]_vars

\* C29 witness: two sign-ins for the unknown email "g1" both found no row;
\* the first stored the row, the second has just been refused, and one row
\* with the email is stored.
C29_Witness ==
    /\ auth.endpoint = "google" /\ auth.status = HTTP_500_INTERNAL
    /\ auth.header.assertion.claims.email = "g1"
    /\ \A p \in Procs : google_req[p].pc = "idle"
    /\ Cardinality(RowsWithEmail(users, "g1")) = 1


\* C24: list_books answers 200 with a count statement that joins the
\* categories exactly once when a category filter is given (and not at all
\* otherwise), carries the same conditions as the items statement, and
\* reports as meta.total the number of distinct books matching the filters;
\* no book is listed more than once.
CategoryFilterGiven(f) == f.category_id # Absent \/ f.category_slug # Absent

MatchesFilters(book, f, data) ==
    /\ f.q # Absent => \/ Contains(book.title, f.q[1])
                       \/ Contains(book.author, f.q[1])
                       \/ book.description # Absent /\ Contains(book.description[1], f.q[1])
    /\ f.author # Absent => Contains(book.author, f.author[1])
    /\ f.price_min # Absent => book.price_cents >= f.price_min[1]
    /\ f.price_max # Absent => book.price_cents <= f.price_max[1]
    /\ CategoryFilterGiven(f) =>
           \E c \in data.categories :
               /\ Link(book.id, c.id) \in data.links
               /\ f.category_id # Absent => c.id = f.category_id[1]
               /\ f.category_slug # Absent => c.slug = f.category_slug[1]

C24_Claim ==
    Returned("list_books") =>
        LET f == call.args[1]
            data == call.args[4]
            r == call.result IN
        /\ r.status = HTTP_200_OK
        /\ r.count_stmt.joins = (IF CategoryFilterGiven(f) THEN 1 ELSE 0)
        /\ r.count_stmt.where = r.items_stmt.where
        /\ r.total = Cardinality({b \in data.books : MatchesFilters(b, f, data)})
        /\ \A i, j \in DOMAIN r.items : i # j => r.items[i] # r.items[j]

\* C21: a list endpoint returns the rows in one fixed total order: whatever
\* order the database delivers rows with equal sort keys in, the same request
\* on the same data gets the same items in the same order.
C21_Claim ==
    /\ Returned("list_categories") =>
           \A order \in ByName(call.args[3].categories) :
               call.result = ListCategories(call.args[1], call.args[2], call.args[3], order)
    /\ (Returned("list_books") /\ call.result.status = HTTP_200_OK) =>
           \A order \in NewestFirst(SelectedRows(call.result.items_stmt, call.args[4])) :
               call.result = ListBooks(call.args[1], call.args[2], call.args[3], call.args[4], order)

\* C22: every Wishlist, Purchase, Library and ReadingProgress row references
\* an existing user and an existing book, also after delete_book and when
\* an add for the book runs concurrently with its deletion.
References(table) ==
    \A r \in table : r.book_id \in books /\ \E u \in users : u.id = r.user_id

C22_Claim ==
    /\ References(wishlists)
    /\ References(purchases)
    /\ References(libraries)
    /\ References(reading_progress)

\* C27: every row a resource handler creates, modifies or deletes has the
\* user_id of the principal of the request, whatever user_id the payload
\* carries, and a read returns only rows of its principal.
ChangedRows(table, table_next) == (table_next \ table) \cup (table \ table_next)

OwnChange(table, table_next) ==
    \A r \in ChangedRows(table, table_next) :
        \E p \in Procs : req'[p] # req[p] /\ r.user_id = req[p].user

C27_OwnRows ==
    [][/\ OwnChange(wishlists, wishlists')
       /\ OwnChange(purchases, purchases')
       /\ OwnChange(libraries, libraries')
       /\ OwnChange(reading_progress, reading_progress')
       /\ last'.op \in ReadOps => \A r \in last'.items : r.user_id = last'.user]_vars

\* C27 witness: a purchase was stored for the principal although the payload
\* named another user, after a list by that principal returned nothing while
\* the other user had a purchase.
C27_Witness ==
    /\ \E p \in Procs :
          /\ req[p].op = "create_purchase" /\ req[p].pc = "lib_check"
          /\ req[p].user = "u2" /\ req[p].payload_user = "u1"
          /\ GetById(purchases, req[p].entry).user_id = "u2"
    /\ last.op = "list_purchases" /\ last.user = "u2" /\ last.items = {}
    /\ \E r \in purchases : r.user_id = "u1"
====
